------------------------------ MODULE Spec2Model ------------------------------
(***************************************************************************)
(* x-safe-post: the safety-evaluation and timing engine of XSafePost       *)
(* (src/src/index.ts), as a state machine.                                 *)
(*                                                                         *)
(* Time.  Every instant and duration of the source is a number of          *)
(* milliseconds; here the clock has a granularity of one second, so a      *)
(* source value of k*1000 ms is the number k.  Date.now() is the variable  *)
(* now; it advances between the synchronous sections of the code (at its   *)
(* awaits), never inside one.                                              *)
(*                                                                         *)
(* Optional values (null / undefined) are <<>> when absent and <<v>> when  *)
(* present.  A text is a sequence of one-character strings.  md5 is taken  *)
(* to be injective: the hash of a text is its normalized form.             *)
(***************************************************************************)
EXTENDS Integers, Sequences, FiniteSets, TLC

VARIABLES
    now,            \* Date.now(), in seconds
    tzOffset,       \* offset of the machine-local clock from UTC, in seconds
    safety,         \* this.safety: the merged SafetySettings
    postHistory,    \* store: sequence of PostHistory records
    lastPostAt,     \* store: optional instant
    dailyPostCount, \* store: integer
    dailyPostDate,  \* store: calendar-day key
    rateLimit,      \* store: optional RateLimitState
    pc,             \* per call slot: position of the running call
    opts,           \* per call slot: the PostOptions of the running call
    api,            \* per call slot: the public method that was called
    check,          \* per call slot: the SafetyCheck held across the await
    res,            \* per call slot: the PostResult of the last inner post
    ret,            \* per call slot: what the public method returned / threw
    wakeAt,         \* per call slot: instant the sleep timer is due
    pre,            \* per call slot: the store as it was when the call began
    first,          \* per call slot: result of postAndWait's first post
    pubCalls,       \* per call slot: Publisher invocations of this call
    sleeps,         \* per call slot: sleeps of this call
    evals,          \* per call slot: checkSafety evaluations of this call
    fault,          \* per call slot: the error client.v2.tweet rejected with
    calc,           \* per call slot: what a direct calculateDelay returned
    held,           \* per call slot: what recordPost has read from the store
    published,      \* every tweet the Publisher accepted: id, text, instant
    recorded,       \* records written by recordPost since the last clearHistory
    steps           \* clock advances and calls of client.v2.tweet so far

store == <<postHistory, lastPostAt, dailyPostCount, dailyPostDate, rateLimit>>
calls == <<pc, opts, api, check, res, ret, wakeAt, pre, first, pubCalls, sleeps, evals,
           fault, calc, held>>
vars  == <<now, tzOffset, safety, store, calls, published, recorded, steps>>

-----------------------------------------------------------------------------
(* Bounds of the model *)

\* clock advances plus Publisher calls in one behaviour
MaxSteps == 3

-----------------------------------------------------------------------------
(* Optional values *)

None == <<>>
Some(v) == <<v>>
IsSome(o) == o # <<>>
Val(o) == o[1]

Max(a, b) == IF a >= b THEN a ELSE b

\* Math.ceil(a / b) for a >= 0, b > 0
CeilDiv(a, b) == (a + b - 1) \div b

-----------------------------------------------------------------------------
(* Time units *)

Second == 1
Minute == 60 * Second
Hour   == 60 * Minute
Day    == 24 * Hour

RetentionDays == 30
RateLimitFallbackMinutes == 15
DefaultRateLimitLimit == 100

\* new Date().toISOString().split('T')[0]: the UTC calendar day, as its index
getTodayString(t) == t \div Day

\* the store default '' of dailyPostDate: no day
NoDate == -1

\* new Date().getHours(): hour of the machine-local clock
getHours(t, tz) == ((t + tz) % Day) \div Hour

-----------------------------------------------------------------------------
(* Texts: sequences of one-character strings *)

WhiteSpace == {" ", "\t", "\n"}
UpperToLower == [c \in {"A", "B", "H", "L", "T"} |->
                    CASE c = "A" -> "a" [] c = "B" -> "b" [] c = "H" -> "h"
                      [] c = "L" -> "l" [] c = "T" -> "t"]
WordChars == {"a", "b", "c", "e", "g", "h", "i", "l", "n", "o", "r", "t", "u", "w", "y",
              "A", "B", "H", "L", "T", "0", "1", "_"}

\* String.prototype.toLowerCase
toLowerCase(t) ==
    [i \in 1..Len(t) |-> IF t[i] \in DOMAIN UpperToLower THEN UpperToLower[t[i]] ELSE t[i]]

\* String.prototype.replace(/\s+/g, ' ')
RECURSIVE CollapseFrom(_, _)
CollapseFrom(t, i) ==
    IF i > Len(t) THEN <<>>
    ELSE IF t[i] \in WhiteSpace
         THEN IF i > 1 /\ t[i-1] \in WhiteSpace
              THEN CollapseFrom(t, i + 1)
              ELSE <<" ">> \o CollapseFrom(t, i + 1)
         ELSE <<t[i]>> \o CollapseFrom(t, i + 1)
collapseSpaces(t) == CollapseFrom(t, 1)

\* String.prototype.trim
RECURSIVE trimStart(_)
trimStart(t) ==
    IF t # <<>> /\ Head(t) \in WhiteSpace THEN trimStart(Tail(t)) ELSE t
RECURSIVE trimEnd(_)
trimEnd(t) ==
    IF t # <<>> /\ t[Len(t)] \in WhiteSpace THEN trimEnd(SubSeq(t, 1, Len(t) - 1)) ELSE t
trim(t) == trimEnd(trimStart(t))

\* mutant of hashContent: the text is not trimmed
hashContent_NoTrim(text) == collapseSpaces(toLowerCase(text))

\* hashContent: md5 of the normalized text; md5 taken as injective
hashContent(text) == trim(collapseSpaces(toLowerCase(text)))

\* String.prototype.split(/\s+/), as the set of the pieces (new Set(...))
RECURSIVE SplitFrom(_, _, _)
SplitFrom(t, i, cur) ==
    IF i > Len(t) THEN {cur}
    ELSE IF t[i] \in WhiteSpace
         THEN IF i > 1 /\ t[i-1] \in WhiteSpace
              THEN SplitFrom(t, i + 1, cur)
              ELSE {cur} \cup SplitFrom(t, i + 1, <<>>)
         ELSE SplitFrom(t, i + 1, Append(cur, t[i]))
wordSet(t) == SplitFrom(toLowerCase(t), 1, <<>>)

\* variant: the share of the first text's words that the second one has
similarity_Containment(a, b) ==
    <<Cardinality(wordSet(a) \cap wordSet(b)), Cardinality(wordSet(a))>>

\* similarity: Jaccard index of the word sets, as the pair <<|A n B|, |A u B|>>
similarity(a, b) ==
    <<Cardinality(wordSet(a) \cap wordSet(b)), Cardinality(wordSet(a) \cup wordSet(b))>>

\* similarity(a, b) > 0.8
SimilarityThresholdNum == 4
SimilarityThresholdDen == 5
IsSimilar(a, b) ==
    similarity(a, b)[1] * SimilarityThresholdDen > SimilarityThresholdNum * similarity(a, b)[2]

\* Math.round(similarity * 100)
similarityPercent(a, b) ==
    (200 * similarity(a, b)[1] + similarity(a, b)[2]) \div (2 * similarity(a, b)[2])

\* (text.match(/<sigil>\w+/g) || []).length
RECURSIVE CountTagsFrom(_, _, _)
CountTagsFrom(t, i, sigil) ==
    IF i >= Len(t) THEN 0
    ELSE IF t[i] = sigil /\ t[i+1] \in WordChars
         THEN 1 + CountTagsFrom(t, i + 2, sigil)
         ELSE CountTagsFrom(t, i + 1, sigil)
hashtagCount(t) == CountTagsFrom(t, 1, "#")
mentionCount(t) == CountTagsFrom(t, 1, "@")

\* /bit\.ly|tinyurl|t\.co|goo\.gl|ow\.ly/i.test(text)
Shorteners == { <<"b","i","t",".","l","y">>, <<"t","i","n","y","u","r","l">>,
                <<"t",".","c","o">>, <<"g","o","o",".","g","l">>, <<"o","w",".","l","y">> }
Contains(t, pat) ==
    \E i \in 1..Len(t) : i + Len(pat) - 1 <= Len(t) /\ SubSeq(t, i, i + Len(pat) - 1) = pat
hasShortener(t) == \E pat \in Shorteners : Contains(toLowerCase(t), pat)

-----------------------------------------------------------------------------
(* Settings *)

DEFAULT_SAFETY ==
    [ minIntervalMinutes |-> 30, maxPostsPerDay |-> 8, enableJitter |-> TRUE,
      maxJitterMinutes |-> 30, dedupeWindowDays |-> 7, quietHoursStart |-> 23,
      quietHoursEnd |-> 6, enableQuietHours |-> TRUE ]

\* { ...DEFAULT_SAFETY, ...config.safety }
MergeSafety(over) ==
    [k \in DOMAIN DEFAULT_SAFETY |-> IF k \in DOMAIN over THEN over[k] ELSE DEFAULT_SAFETY[k]]

\* the config.safety objects the model is run with
SafetyOverrides ==
    { [maxPostsPerDay |-> 1, enableJitter |-> FALSE, quietHoursEnd |-> 0,
       minIntervalMinutes |-> 0, dedupeWindowDays |-> 1],
      [maxPostsPerDay |-> 2, enableQuietHours |-> FALSE, dedupeWindowDays |-> 40] }

-----------------------------------------------------------------------------
(* Private helpers of XSafePost, as functions of the clock and the store *)

\* mutant of ResetCount: every access resets the count
ResetCount_Always(date, count, t) == 0

\* checkDailyReset: the values of dailyPostCount / dailyPostDate it leaves
ResetCount(date, count, t) == IF date # getTodayString(t) THEN 0 ELSE count
ResetDate(date, t) == IF date # getTodayString(t) THEN getTodayString(t) ELSE date

\* mutant of isQuietHours: the overnight window is not handled
isQuietHours_NoWrap(t, tz, cfg) ==
    getHours(t, tz) >= cfg.quietHoursStart /\ getHours(t, tz) < cfg.quietHoursEnd

isQuietHours(t, tz, cfg) ==
    LET hour  == getHours(t, tz)
        start == cfg.quietHoursStart
        end   == cfg.quietHoursEnd
    IN  IF start > end
        THEN hour >= start \/ hour < end
        ELSE hour >= start /\ hour < end

\* mutant of getQuietHoursEnd: an end that has passed is not moved to tomorrow
getQuietHoursEnd_Today(t, tz, cfg) ==
    LET local    == t + tz
        midnight == local - (local % Day)
    IN  midnight + cfg.quietHoursEnd * Hour - tz

\* end.setHours(quietHoursEnd, 0, 0, 0); if (end <= now) end.setDate(+1)
getQuietHoursEnd(t, tz, cfg) ==
    LET local    == t + tz
        midnight == local - (local % Day)
        end      == midnight + cfg.quietHoursEnd * Hour
    IN  (IF end <= local THEN end + Day ELSE end) - tz

\* timeAgo: "<n>s ago", "<n>m ago", "<n>h ago", "<n>d ago" as <<n, unit>>
timeAgo(timestamp, t) ==
    LET seconds == t - timestamp
    IN  IF seconds < 60 THEN <<seconds, "s">>
        ELSE IF seconds < 3600 THEN <<seconds \div 60, "m">>
        ELSE IF seconds < 86400 THEN <<seconds \div 3600, "h">>
        ELSE <<seconds \div 86400, "d">>

\* mutant of rateLimitExhausted: the reset instant itself still counts as limited
rateLimitExhausted_AtReset(rl, t) == IsSome(rl) /\ Val(rl).remaining = 0 /\ Val(rl).resetAt >= t

\* rateLimit && rateLimit.remaining === 0 && rateLimit.resetAt > Date.now()
rateLimitExhausted(rl, t) == IsSome(rl) /\ Val(rl).remaining = 0 /\ Val(rl).resetAt > t

\* Array.prototype.find: the first element satisfying the test, if any
FirstIndex(S) == CHOOSE i \in S : \A j \in S : i <= j
Find(seq, Test(_)) ==
    LET hits == {i \in 1..Len(seq) : Test(seq[i])}
    IN  IF hits = {} THEN None ELSE Some(seq[FirstIndex(hits)])

-----------------------------------------------------------------------------
(* checkSafety, evaluated on the store as checkDailyReset leaves it.       *)
(* A message is a tuple: its fixed wording first, then the values that     *)
(* are formatted into it.                                                  *)

dedupeCutoff(t, cfg) == t - cfg.dedupeWindowDays * Day

\* mutant of findDuplicate: the cutoff instant itself still counts as inside
findDuplicate_AtCutoff(text, t, hist, cfg) ==
    Find(hist, LAMBDA h : h.hash = hashContent(text) /\ h.timestamp >= dedupeCutoff(t, cfg))

findDuplicate(text, t, hist, cfg) ==
    Find(hist, LAMBDA h : h.hash = hashContent(text) /\ h.timestamp > dedupeCutoff(t, cfg))

findSimilar(text, t, hist, cfg) ==
    Find(hist, LAMBDA h : h.timestamp > dedupeCutoff(t, cfg) /\ IsSimilar(text, h.text))

HashtagWarnAbove == 3
HashtagErrorAbove == 5
MentionWarnAbove == 5
ApproachingMargin == 2

\* mutant of checkSafetyErrors: five hashtags are an error already
checkSafetyErrors_TagsAtFive(text, t, hist, count, rl, cfg) ==
    (IF rateLimitExhausted(rl, t)
        THEN << <<"Rate limit exceeded. Resets at", Val(rl).resetAt>> >> ELSE <<>>)
    \o (IF count >= cfg.maxPostsPerDay
        THEN << <<"Daily post limit reached", cfg.maxPostsPerDay>> >> ELSE <<>>)
    \o (IF IsSome(findDuplicate(text, t, hist, cfg))
        THEN << <<"Duplicate content detected">>
                   \o timeAgo(Val(findDuplicate(text, t, hist, cfg)).timestamp, t) >>
        ELSE <<>>)
    \o (IF hashtagCount(text) >= HashtagErrorAbove
        THEN << <<"Excessive hashtags - high shadowban risk">> >> ELSE <<>>)

\* mutant of checkSafetyErrors: the rules stop at the first error
checkSafetyErrors_FirstOnly(text, t, hist, count, rl, cfg) ==
    IF rateLimitExhausted(rl, t)
    THEN << <<"Rate limit exceeded. Resets at", Val(rl).resetAt>> >>
    ELSE IF count >= cfg.maxPostsPerDay
    THEN << <<"Daily post limit reached", cfg.maxPostsPerDay>> >>
    ELSE IF IsSome(findDuplicate(text, t, hist, cfg))
    THEN << <<"Duplicate content detected">>
                \o timeAgo(Val(findDuplicate(text, t, hist, cfg)).timestamp, t) >>
    ELSE IF hashtagCount(text) > HashtagErrorAbove
    THEN << <<"Excessive hashtags - high shadowban risk">> >>
    ELSE <<>>

checkSafetyErrors(text, t, hist, count, rl, cfg) ==
    (IF rateLimitExhausted(rl, t)
        THEN << <<"Rate limit exceeded. Resets at", Val(rl).resetAt>> >> ELSE <<>>)
    \o (IF count >= cfg.maxPostsPerDay
        THEN << <<"Daily post limit reached", cfg.maxPostsPerDay>> >> ELSE <<>>)
    \o (IF IsSome(findDuplicate(text, t, hist, cfg))
        THEN << <<"Duplicate content detected">>
                   \o timeAgo(Val(findDuplicate(text, t, hist, cfg)).timestamp, t) >>
        ELSE <<>>)
    \o (IF hashtagCount(text) > HashtagErrorAbove
        THEN << <<"Excessive hashtags - high shadowban risk">> >> ELSE <<>>)

checkSafetyWarnings(text, t, tz, hist, lp, count, cfg) ==
    (IF count < cfg.maxPostsPerDay /\ count >= cfg.maxPostsPerDay - ApproachingMargin
        THEN << <<"Approaching daily limit", count, cfg.maxPostsPerDay>> >> ELSE <<>>)
    \o (IF cfg.enableQuietHours /\ isQuietHours(t, tz, cfg)
        THEN << <<"Currently in quiet hours - post will be delayed">> >> ELSE <<>>)
    \o (IF IsSome(findSimilar(text, t, hist, cfg))
           /\ Val(findSimilar(text, t, hist, cfg)).hash # hashContent(text)
        THEN << <<"Very similar to recent post",
                  similarityPercent(text, Val(findSimilar(text, t, hist, cfg)).text)>> >>
        ELSE <<>>)
    \o (IF hashtagCount(text) > HashtagWarnAbove
        THEN << <<"Too many hashtags", hashtagCount(text)>> >> ELSE <<>>)
    \o (IF hasShortener(text)
        THEN << <<"URL shorteners may trigger spam filters">> >> ELSE <<>>)
    \o (IF mentionCount(text) > MentionWarnAbove
        THEN << <<"Many mentions", mentionCount(text)>> >> ELSE <<>>)
    \o (IF IsSome(lp) /\ Val(lp) # 0 /\ (t - Val(lp)) < cfg.minIntervalMinutes * Minute
        THEN << <<"Posted ago - recommend waiting",
                  (2 * (t - Val(lp)) + Minute) \div (2 * Minute),
                  CeilDiv(cfg.minIntervalMinutes * Minute - (t - Val(lp)), Minute)>> >>
        ELSE <<>>)

checkSafetySuggestions(text, t, hist, cfg) ==
    (IF IsSome(findSimilar(text, t, hist, cfg))
           /\ Val(findSimilar(text, t, hist, cfg)).hash # hashContent(text)
        THEN << <<"Consider rephrasing to avoid detection as duplicate">> >> ELSE <<>>)
    \o (IF hasShortener(text)
        THEN << <<"Use full URLs or native X links">> >> ELSE <<>>)

checkSafety(text, t, tz, hist, lp, date, count, rl, cfg) ==
    LET c == ResetCount(date, count, t)
    IN  [ safe        |-> checkSafetyErrors(text, t, hist, c, rl, cfg) = <<>>,
          warnings    |-> checkSafetyWarnings(text, t, tz, hist, lp, c, cfg),
          errors      |-> checkSafetyErrors(text, t, hist, c, rl, cfg),
          suggestions |-> checkSafetySuggestions(text, t, hist, cfg) ]

-----------------------------------------------------------------------------
(* calculateDelay *)

\* mutant of calculateBase: the reason names the largest component
calculateBase_LargestReason(t, tz, lp, rl, cfg) ==
    LET rlOn   == rateLimitExhausted(rl, t)
        d1     == IF rlOn THEN Max(0, Val(rl).resetAt - t) ELSE 0
        minWait == cfg.minIntervalMinutes * Minute
        miOn   == IsSome(lp) /\ Val(lp) # 0 /\ (t - Val(lp)) < minWait
        d2     == IF miOn THEN minWait - (t - Val(lp)) ELSE 0
        qhOn   == cfg.enableQuietHours /\ isQuietHours(t, tz, cfg)
        d3     == IF qhOn THEN getQuietHoursEnd(t, tz, cfg) - t ELSE 0
    IN  [delayMs |-> Max(d1, Max(d2, d3)),
         reason  |-> IF rlOn /\ d1 >= d2 /\ d1 >= d3 THEN Some("Rate limit cooldown")
                     ELSE IF miOn /\ d2 >= d3 THEN Some("Minimum interval")
                     ELSE IF qhOn THEN Some("Quiet hours")
                     ELSE None]

\* mutant of calculateBase: the minimum interval is not looked at
calculateBase_NoInterval(t, tz, lp, rl, cfg) ==
    LET rlOn   == rateLimitExhausted(rl, t)
        d1     == IF rlOn THEN Max(0, Val(rl).resetAt - t) ELSE 0
        r1     == IF rlOn THEN Some("Rate limit cooldown") ELSE None
        qhOn   == cfg.enableQuietHours /\ isQuietHours(t, tz, cfg)
        d3     == IF qhOn THEN Max(d1, getQuietHoursEnd(t, tz, cfg) - t) ELSE d1
        r3     == IF qhOn /\ r1 = None THEN Some("Quiet hours") ELSE r1
    IN  [delayMs |-> d3, reason |-> r3]

\* the delay before jitter and its reason
calculateBase(t, tz, lp, rl, cfg) ==
    LET rlOn   == rateLimitExhausted(rl, t)
        d1     == IF rlOn THEN Max(0, Val(rl).resetAt - t) ELSE 0
        r1     == IF rlOn THEN Some("Rate limit cooldown") ELSE None
        minWait == cfg.minIntervalMinutes * Minute
        miOn   == IsSome(lp) /\ Val(lp) # 0 /\ (t - Val(lp)) < minWait
        d2     == IF miOn THEN Max(d1, minWait - (t - Val(lp))) ELSE d1
        r2     == IF miOn /\ r1 = None THEN Some("Minimum interval") ELSE r1
        qhOn   == cfg.enableQuietHours /\ isQuietHours(t, tz, cfg)
        d3     == IF qhOn THEN Max(d2, getQuietHoursEnd(t, tz, cfg) - t) ELSE d2
        r3     == IF qhOn /\ r2 = None THEN Some("Quiet hours") ELSE r2
    IN  [delayMs |-> d3, reason |-> r3]

\* the values Math.random() * jitterMinutes * 60 * 1000 is drawn from:
\* the least and the greatest of [0, jitterMinutes * 60) at clock granularity
\* (of (jitterMinutes * 60, 0] for a negative override)
JitterRolls(jitterMinutes) ==
    IF jitterMinutes > 0 THEN {0, jitterMinutes * Minute - 1}
    ELSE IF jitterMinutes < 0 THEN {0, jitterMinutes * Minute + 1}
    ELSE {0}

\* mutant of calculateDelay: the override is ignored
calculateDelay_NoOverride(customJitter, t, tz, lp, rl, cfg) ==
    LET base == calculateBase(t, tz, lp, rl, cfg)
    IN  IF cfg.enableJitter /\ base.delayMs > 0
        THEN {[delayMs |-> base.delayMs + j, reason |-> base.reason] :
                  j \in JitterRolls(cfg.maxJitterMinutes)}
        ELSE {base}

\* mutant of calculateDelay: jitter is added to a zero base too
calculateDelay_AlwaysJitter(customJitter, t, tz, lp, rl, cfg) ==
    LET base == calculateBase(t, tz, lp, rl, cfg)
        jitterMinutes == IF IsSome(customJitter) THEN Val(customJitter)
                         ELSE cfg.maxJitterMinutes
    IN  IF cfg.enableJitter
        THEN {[delayMs |-> base.delayMs + j, reason |-> base.reason] :
                  j \in JitterRolls(jitterMinutes)}
        ELSE {base}

\* the delays calculateDelay(customJitter) can return
calculateDelay(customJitter, t, tz, lp, rl, cfg) ==
    LET base == calculateBase(t, tz, lp, rl, cfg)
        jitterMinutes == IF IsSome(customJitter) THEN Val(customJitter)
                         ELSE cfg.maxJitterMinutes
    IN  IF cfg.enableJitter /\ base.delayMs > 0
        THEN {[delayMs |-> base.delayMs + j, reason |-> base.reason] :
                  j \in JitterRolls(jitterMinutes)}
        ELSE {base}

-----------------------------------------------------------------------------
(* recordPost *)

retentionCutoff(t) == t - RetentionDays * Day

\* mutant of recordPostHistory: a record exactly at the cutoff is kept
recordPostHistory_AtCutoff(hist, text, tweetId, t) ==
    SelectSeq(Append(hist, [id |-> tweetId, text |-> text, hash |-> hashContent(text),
                            timestamp |-> t]),
              LAMBDA h : h.timestamp >= retentionCutoff(t))

\* mutant of recordPostHistory: the history is replaced by the new record
recordPostHistory_OnlyNew(hist, text, tweetId, t) ==
    <<[id |-> tweetId, text |-> text, hash |-> hashContent(text), timestamp |-> t]>>

\* mutant of recordPostHistory: one day is kept instead of thirty
recordPostHistory_OneDay(hist, text, tweetId, t) ==
    SelectSeq(Append(hist, [id |-> tweetId, text |-> text, hash |-> hashContent(text),
                            timestamp |-> t]),
              LAMBDA h : h.timestamp > t - Day)

recordPostHistory(hist, text, tweetId, t) ==
    SelectSeq(Append(hist, [id |-> tweetId, text |-> text, hash |-> hashContent(text),
                            timestamp |-> t]),
              LAMBDA h : h.timestamp > retentionCutoff(t))

\* mutant of recordPostCount: the count is written back as it was read
recordPostCount_Keep(count) == count

\* this.store.get('dailyPostCount') + 1
recordPostCount(count) == count + 1

-----------------------------------------------------------------------------
(* Inputs *)

Procs == {1, 2}
SerialProcs == {1}

Hello      == <<"H", "e", "l", "l", "o">>
helloSpace == <<"h", "e", "l", "l", "o", " ">>
Bye        == <<"b", "y", "e">>
SixTags    == <<"#", "a", "#", "b", "#", "c", "#", "e", "#", "g", "#", "h">>
Texts      == {Hello, helloSpace, Bye, SixTags}
PostTexts  == {Hello, Bye}

\* options.jitterMinutes
JitterOptions == {None}

PostOptions == [text : PostTexts, force : BOOLEAN, jitterMinutes : JitterOptions]

\* the instant the engine is constructed at: 23:30 UTC of day 1
StartTimes == {Day + 23 * Hour + 30 * Minute}
TzOffsets == {0}

\* amounts the clock advances by between two steps
TickSteps == {30 * Minute, Day, 30 * Day}

\* failures of client.v2.tweet: error.code, error.rateLimitError and
\* error.rateLimit?.reset (epoch seconds) relative to now
PublisherErrors ==
    { [code |-> 429, rateLimitError |-> FALSE, resetIn |-> None],
      [code |-> 403, rateLimitError |-> TRUE,  resetIn |-> Some(Hour)],
      [code |-> 500, rateLimitError |-> FALSE, resetIn |-> None] }

\* mutant of isRateLimitError: a server error counts as a rate limit too
isRateLimitError_ServerError(e) == e.code = 429 \/ e.rateLimitError \/ e.code >= 500

\* error.code === 429 || error.rateLimitError
isRateLimitError(e) == e.code = 429 \/ e.rateLimitError

-----------------------------------------------------------------------------
(* PostResult.  thrown is set when the call threw instead of returning.    *)

NoResult ==
    [ success |-> FALSE, tweetId |-> None, scheduledFor |-> None, delayed |-> FALSE,
      delayMinutes |-> None, blocked |-> FALSE, blockReason |-> None,
      rateLimitRemaining |-> None, rateLimitReset |-> None, thrown |-> None ]

BlockedResult(errors) ==
    [NoResult EXCEPT !.blocked = TRUE, !.blockReason = Some(errors)]

DelayedResult(delay, t) ==
    [NoResult EXCEPT !.delayed = TRUE, !.delayMinutes = Some(CeilDiv(delay.delayMs, Minute)),
                     !.scheduledFor = Some(t + delay.delayMs),
                     !.blockReason = delay.reason]

PostedResult(tweetId, rl) ==
    [NoResult EXCEPT !.success = TRUE, !.tweetId = Some(tweetId),
                     !.rateLimitRemaining = IF IsSome(rl) THEN Some(Val(rl).remaining) ELSE None]

RateLimitedResult(resetAt) ==
    [NoResult EXCEPT !.blocked = TRUE, !.blockReason = Some(<< <<"Rate limit exceeded">> >>),
                     !.rateLimitRemaining = Some(0), !.rateLimitReset = Some(resetAt)]

ThrownResult(e) == [NoResult EXCEPT !.thrown = Some(e)]

NoCheck == [safe |-> TRUE, warnings |-> <<>>, errors |-> <<>>, suggestions |-> <<>>]
NoOptions == [text |-> <<>>, force |-> FALSE, jitterMinutes |-> None]
NoStore == <<<<>>, None, 0, NoDate, None>>
NoDelay == [delayMs |-> 0, reason |-> None]
NoHeld == [history |-> <<>>, count |-> 0, id |-> 0]

-----------------------------------------------------------------------------
(* Initial state: the Conf defaults, then the constructor's checkDailyReset *)

Init ==
    /\ now \in StartTimes
    /\ tzOffset \in TzOffsets
    /\ safety \in {MergeSafety(o) : o \in SafetyOverrides}
    /\ postHistory = <<>>
    /\ lastPostAt = None
    /\ dailyPostCount = ResetCount(NoDate, 0, now)
    /\ dailyPostDate = ResetDate(NoDate, now)
    /\ rateLimit = None
    /\ pc = [p \in Procs |-> "idle"]
    /\ opts = [p \in Procs |-> NoOptions]
    /\ api = [p \in Procs |-> "none"]
    /\ check = [p \in Procs |-> NoCheck]
    /\ res = [p \in Procs |-> NoResult]
    /\ ret = [p \in Procs |-> None]
    /\ wakeAt = [p \in Procs |-> 0]
    /\ pre = [p \in Procs |-> NoStore]
    /\ first = [p \in Procs |-> None]
    /\ pubCalls = [p \in Procs |-> 0]
    /\ sleeps = [p \in Procs |-> 0]
    /\ evals = [p \in Procs |-> 0]
    /\ fault = [p \in Procs |-> None]
    /\ calc = [p \in Procs |-> NoDelay]
    /\ held = [p \in Procs |-> NoHeld]
    /\ published = <<>>
    /\ recorded = <<>>
    /\ steps = 0

-----------------------------------------------------------------------------
(* post(options) and postAndWait(options).  The synchronous sections of    *)
(* the code are separated by its awaits: of checkSafety, of                *)
(* client.v2.tweet, of the inner post, and of sleep.  method and f are     *)
(* the public method of the running call and the result of its first       *)
(* inner post, if that has returned.                                       *)

\* mutants of shouldDelay: the force flag inverted; the force flag ignored
shouldDelay_Inverted(delay, force) == delay.delayMs > 0 /\ force
shouldDelay_NoForce(delay, force) == delay.delayMs > 0

\* delay.delayMs > 0 && !force
shouldDelay(delay, force) == delay.delayMs > 0 /\ ~force

\* mutant of rateLimitResetAt: the reported reset is ignored
rateLimitResetAt_Fallback(e, t) == t + RateLimitFallbackMinutes * Minute

\* error.rateLimit?.reset ? new Date(error.rateLimit.reset * 1000)
\*                        : new Date(Date.now() + 15 * 60 * 1000)
rateLimitResetAt(e, t) ==
    IF IsSome(e.resetIn) /\ t + Val(e.resetIn) # 0
    THEN t + Val(e.resetIn)
    ELSE t + RateLimitFallbackMinutes * Minute

\* result.delayed && result.scheduledFor, and waitMs > 0
shouldWait(result, t) ==
    /\ result.thrown = None
    /\ result.delayed
    /\ IsSome(result.scheduledFor)
    /\ Val(result.scheduledFor) - t > 0

\* the inner post of slot p returns (or throws) r
ReturnFromPost(p, r, method, f) ==
    /\ res' = [res EXCEPT ![p] = r]
    /\ IF method = "postAndWait" /\ f = None
       THEN /\ pc' = [pc EXCEPT ![p] = "await_post"]
            /\ first' = [first EXCEPT ![p] = Some(r)]
            /\ ret' = ret
       ELSE /\ pc' = [pc EXCEPT ![p] = "done"]
            /\ first' = [first EXCEPT ![p] = f]
            /\ ret' = [ret EXCEPT ![p] = Some(r)]

\* post() from "Calculate delay with jitter" to the call of client.v2.tweet
SubmitOrDelay(p, o, method, f) ==
    \E delay \in calculateDelay(o.jitterMinutes, now, tzOffset, lastPostAt, rateLimit, safety) :
        IF shouldDelay(delay, o.force)
        THEN /\ ReturnFromPost(p, DelayedResult(delay, now), method, f)
             /\ UNCHANGED <<pubCalls, steps>>
        ELSE /\ steps < MaxSteps
             /\ pc' = [pc EXCEPT ![p] = "await_tweet"]
             /\ pubCalls' = [pubCalls EXCEPT ![p] = @ + 1]
             /\ steps' = steps + 1
             /\ UNCHANGED <<res, ret, first>>

\* a public method is called on a free slot: post() runs to its first await
StartCall(p, method, o) ==
    /\ pc[p] = "idle"
    /\ api' = [api EXCEPT ![p] = method]
    /\ opts' = [opts EXCEPT ![p] = o]
    /\ pre' = [pre EXCEPT ![p] = store]
    /\ IF ~o.force
       THEN \* await this.checkSafety(text): checkSafety runs, then post yields
            /\ check' = [check EXCEPT ![p] =
                   checkSafety(o.text, now, tzOffset, postHistory, lastPostAt,
                               dailyPostDate, dailyPostCount, rateLimit, safety)]
            /\ dailyPostCount' = ResetCount(dailyPostDate, dailyPostCount, now)
            /\ dailyPostDate' = ResetDate(dailyPostDate, now)
            /\ evals' = [evals EXCEPT ![p] = @ + 1]
            /\ pc' = [pc EXCEPT ![p] = "await_check"]
            /\ UNCHANGED <<res, ret, first, pubCalls, steps>>
       ELSE /\ SubmitOrDelay(p, o, method, None)
            /\ UNCHANGED <<check, evals, dailyPostCount, dailyPostDate>>
    /\ UNCHANGED <<now, tzOffset, safety, postHistory, lastPostAt, rateLimit,
                   wakeAt, sleeps, fault, calc, held, published, recorded>>

Post(p, o) == StartCall(p, "post", o)

PostAndWait(p, o) == StartCall(p, "postAndWait", o)

\* post() resumes after await this.checkSafety(text)
ResumeAfterCheck(p) ==
    /\ pc[p] = "await_check"
    /\ IF ~check[p].safe
       THEN /\ ReturnFromPost(p, BlockedResult(check[p].errors), api[p], first[p])
            /\ UNCHANGED <<pubCalls, steps>>
       ELSE SubmitOrDelay(p, opts[p], api[p], first[p])
    /\ UNCHANGED <<now, tzOffset, safety, store, opts, api, check, wakeAt, pre, calc, held,
                   sleeps, evals, fault, published, recorded>>

\* mutant of PublisherSucceeds: recordPost does not write lastPostAt
PublisherSucceeds_NoLastPost(p) ==
    /\ pc[p] = "await_tweet"
    /\ LET tweetId == Len(published) + 1
       IN  /\ postHistory' = recordPostHistory(postHistory, opts[p].text, tweetId, now)
           /\ dailyPostCount' = recordPostCount(dailyPostCount)
           /\ published' = Append(published,
                  [id |-> tweetId, text |-> opts[p].text, at |-> now])
           /\ recorded' = Append(recorded,
                  [id |-> tweetId, text |-> opts[p].text,
                   hash |-> hashContent(opts[p].text), timestamp |-> now])
           /\ ReturnFromPost(p, PostedResult(tweetId, rateLimit), api[p], first[p])
    /\ UNCHANGED <<now, tzOffset, safety, lastPostAt, dailyPostDate, rateLimit, opts, api,
                   check, wakeAt, pre, calc, held, pubCalls, sleeps, evals, fault, steps>>

\* client.v2.tweet resolves: recordPost, then the Posted result
PublisherSucceeds(p) ==
    /\ pc[p] = "await_tweet"
    /\ LET tweetId == Len(published) + 1
       IN  /\ postHistory' = recordPostHistory(postHistory, opts[p].text, tweetId, now)
           /\ lastPostAt' = Some(now)
           /\ dailyPostCount' = recordPostCount(dailyPostCount)
           /\ published' = Append(published,
                  [id |-> tweetId, text |-> opts[p].text, at |-> now])
           /\ recorded' = Append(recorded,
                  [id |-> tweetId, text |-> opts[p].text,
                   hash |-> hashContent(opts[p].text), timestamp |-> now])
           /\ ReturnFromPost(p, PostedResult(tweetId, rateLimit), api[p], first[p])
    /\ UNCHANGED <<now, tzOffset, safety, dailyPostDate, rateLimit, opts, api, check,
                   wakeAt, pre, calc, held, pubCalls, sleeps, evals, fault, steps>>

\* client.v2.tweet rejects with a rate-limit error
PublisherRateLimits(p, e) ==
    /\ pc[p] = "await_tweet"
    /\ isRateLimitError(e)
    /\ rateLimit' = Some([remaining |-> 0, limit |-> DefaultRateLimitLimit,
                          resetAt |-> rateLimitResetAt(e, now)])
    /\ ReturnFromPost(p, RateLimitedResult(rateLimitResetAt(e, now)), api[p], first[p])
    /\ fault' = [fault EXCEPT ![p] = Some(e)]
    /\ UNCHANGED <<now, tzOffset, safety, postHistory, lastPostAt, dailyPostCount,
                   dailyPostDate, opts, api, check, wakeAt, pre, calc, held, pubCalls, sleeps,
                   evals, published, recorded, steps>>

\* client.v2.tweet rejects with any other error: post rethrows it
PublisherFails(p, e) ==
    /\ pc[p] = "await_tweet"
    /\ ~isRateLimitError(e)
    /\ ReturnFromPost(p, ThrownResult(e), api[p], first[p])
    /\ fault' = [fault EXCEPT ![p] = Some(e)]
    /\ UNCHANGED <<now, tzOffset, safety, store, opts, api, check, wakeAt, pre, calc, held,
                   pubCalls, sleeps, evals, published, recorded, steps>>

\* mutant of ResumePostAndWait: going to sleep stamps lastPostAt
ResumePostAndWait_Stamps(p) ==
    /\ pc[p] = "await_post"
    /\ IF shouldWait(res[p], now)
       THEN /\ pc' = [pc EXCEPT ![p] = "sleeping"]
            /\ wakeAt' = [wakeAt EXCEPT ![p] = now + (Val(res[p].scheduledFor) - now)]
            /\ sleeps' = [sleeps EXCEPT ![p] = @ + 1]
            /\ lastPostAt' = Some(now)
            /\ ret' = ret
       ELSE /\ pc' = [pc EXCEPT ![p] = "done"]
            /\ ret' = [ret EXCEPT ![p] = Some(res[p])]
            /\ UNCHANGED <<wakeAt, sleeps, lastPostAt>>
    /\ UNCHANGED <<now, tzOffset, safety, postHistory, dailyPostCount, dailyPostDate,
                   rateLimit, opts, api, check, res, pre, calc, held, first,
                   pubCalls, evals, fault, published, recorded, steps>>

\* postAndWait resumes after await this.post(options)
ResumePostAndWait(p) ==
    /\ pc[p] = "await_post"
    /\ IF shouldWait(res[p], now)
       THEN \* await this.sleep(waitMs)
            /\ pc' = [pc EXCEPT ![p] = "sleeping"]
            /\ wakeAt' = [wakeAt EXCEPT ![p] = now + (Val(res[p].scheduledFor) - now)]
            /\ sleeps' = [sleeps EXCEPT ![p] = @ + 1]
            /\ ret' = ret
       ELSE \* return result (a rejection of the inner post is rethrown)
            /\ pc' = [pc EXCEPT ![p] = "done"]
            /\ ret' = [ret EXCEPT ![p] = Some(res[p])]
            /\ UNCHANGED <<wakeAt, sleeps>>
    /\ UNCHANGED <<now, tzOffset, safety, store, opts, api, check, res, pre, calc, held, first,
                   pubCalls, evals, fault, published, recorded, steps>>

\* the sleep timer fires: return this.post({ ...options, force: true })
TimerFires(p) ==
    /\ pc[p] = "sleeping"
    /\ now >= wakeAt[p]
    /\ opts' = [opts EXCEPT ![p].force = TRUE]
    /\ SubmitOrDelay(p, [opts[p] EXCEPT !.force = TRUE], api[p], first[p])
    /\ UNCHANGED <<now, tzOffset, safety, store, api, check, wakeAt, pre, calc, held,
                   sleeps, evals, fault, published, recorded>>

\* the caller takes the result of the call; the slot is free for the next call
Settle(p) ==
    /\ pc[p] = "done"
    /\ pc' = [pc EXCEPT ![p] = "idle"]
    /\ opts' = [opts EXCEPT ![p] = NoOptions]
    /\ api' = [api EXCEPT ![p] = "none"]
    /\ check' = [check EXCEPT ![p] = NoCheck]
    /\ res' = [res EXCEPT ![p] = NoResult]
    /\ ret' = [ret EXCEPT ![p] = None]
    /\ wakeAt' = [wakeAt EXCEPT ![p] = 0]
    /\ pre' = [pre EXCEPT ![p] = NoStore]
    /\ first' = [first EXCEPT ![p] = None]
    /\ pubCalls' = [pubCalls EXCEPT ![p] = 0]
    /\ sleeps' = [sleeps EXCEPT ![p] = 0]
    /\ evals' = [evals EXCEPT ![p] = 0]
    /\ fault' = [fault EXCEPT ![p] = None]
    /\ calc' = [calc EXCEPT ![p] = NoDelay]
    /\ held' = [held EXCEPT ![p] = NoHeld]
    /\ UNCHANGED <<now, tzOffset, safety, store, published, recorded, steps>>

-----------------------------------------------------------------------------
(* The synchronous public methods, and the clock *)

\* checkSafety(text) called directly: it returns the SafetyCheck; its only
\* write is checkDailyReset
CheckSafety(p, text) ==
    /\ pc[p] = "idle"
    /\ api' = [api EXCEPT ![p] = "checkSafety"]
    /\ opts' = [opts EXCEPT ![p].text = text]
    /\ pre' = [pre EXCEPT ![p] = store]
    /\ check' = [check EXCEPT ![p] =
           checkSafety(text, now, tzOffset, postHistory, lastPostAt,
                       dailyPostDate, dailyPostCount, rateLimit, safety)]
    /\ dailyPostCount' = ResetCount(dailyPostDate, dailyPostCount, now)
    /\ dailyPostDate' = ResetDate(dailyPostDate, now)
    /\ pc' = [pc EXCEPT ![p] = "done"]
    /\ UNCHANGED <<now, tzOffset, safety, postHistory, lastPostAt, rateLimit,
                   res, ret, wakeAt, first, pubCalls, sleeps, evals, fault, calc, held,
                   published, recorded, steps>>

\* calculateDelay(customJitter) called directly (getNextPostTime calls it
\* without an override): it returns the delay and writes nothing
CalculateDelay(p, customJitter) ==
    /\ pc[p] = "idle"
    /\ api' = [api EXCEPT ![p] = "calculateDelay"]
    /\ opts' = [opts EXCEPT ![p].jitterMinutes = customJitter]
    /\ pre' = [pre EXCEPT ![p] = store]
    /\ \E d \in calculateDelay(customJitter, now, tzOffset, lastPostAt, rateLimit, safety) :
           calc' = [calc EXCEPT ![p] = d]
    /\ pc' = [pc EXCEPT ![p] = "done"]
    /\ UNCHANGED <<now, tzOffset, safety, store, check, res, ret, wakeAt, first,
                   pubCalls, sleeps, evals, fault, held, published, recorded, steps>>

\* getStats(), and the constructor of another XSafePost on the same store
GetStats(p) ==
    /\ pc[p] = "idle"
    /\ dailyPostCount' = ResetCount(dailyPostDate, dailyPostCount, now)
    /\ dailyPostDate' = ResetDate(dailyPostDate, now)
    /\ <<dailyPostCount', dailyPostDate'>> # <<dailyPostCount, dailyPostDate>>
    /\ UNCHANGED <<now, tzOffset, safety, postHistory, lastPostAt, rateLimit,
                   calls, published, recorded, steps>>

\* mutant of ClearHistory: the last-post instant is forgotten too
ClearHistory_AndLastPost(p) ==
    /\ pc[p] = "idle"
    /\ postHistory # <<>>
    /\ postHistory' = <<>>
    /\ lastPostAt' = None
    /\ recorded' = <<>>
    /\ UNCHANGED <<now, tzOffset, safety, dailyPostCount, dailyPostDate,
                   rateLimit, calls, published, steps>>

\* this.store.set('postHistory', [])
ClearHistory(p) ==
    /\ pc[p] = "idle"
    /\ postHistory # <<>>
    /\ postHistory' = <<>>
    /\ recorded' = <<>>
    /\ UNCHANGED <<now, tzOffset, safety, lastPostAt, dailyPostCount, dailyPostDate,
                   rateLimit, calls, published, steps>>

ResetDailyCount(p) ==
    /\ pc[p] = "idle"
    /\ dailyPostCount # 0 \/ dailyPostDate # getTodayString(now)
    /\ dailyPostCount' = 0
    /\ dailyPostDate' = getTodayString(now)
    /\ UNCHANGED <<now, tzOffset, safety, postHistory, lastPostAt, rateLimit,
                   calls, published, recorded, steps>>

\* time passes
Tick(d) ==
    /\ steps < MaxSteps
    /\ \A p \in Procs : pc[p] # "done"
    /\ now' = now + d
    /\ steps' = steps + 1
    /\ UNCHANGED <<tzOffset, safety, store, calls, published, recorded>>

-----------------------------------------------------------------------------
(* Serialized use: one caller, one call at a time *)

Next ==
    \/ \E p \in SerialProcs, o \in PostOptions : Post(p, o)
    \/ \E p \in SerialProcs, o \in PostOptions : PostAndWait(p, o)
    \/ \E p \in SerialProcs : ResumeAfterCheck(p)
    \/ \E p \in SerialProcs : PublisherSucceeds(p)
    \/ \E p \in SerialProcs, e \in PublisherErrors : PublisherRateLimits(p, e)
    \/ \E p \in SerialProcs, e \in PublisherErrors : PublisherFails(p, e)
    \/ \E p \in SerialProcs : ResumePostAndWait(p)
    \/ \E p \in SerialProcs : TimerFires(p)
    \/ \E p \in SerialProcs : Settle(p)
    \/ \E p \in SerialProcs, text \in Texts : CheckSafety(p, text)
    \/ \E p \in SerialProcs, j \in JitterOptions : CalculateDelay(p, j)
    \/ \E p \in SerialProcs : GetStats(p)
    \/ \E p \in SerialProcs : ClearHistory(p)
    \/ \E p \in SerialProcs : ResetDailyCount(p)
    \/ \E d \in TickSteps : Tick(d)

Spec == Init /\ [][Next]_vars

-----------------------------------------------------------------------------
(* Use without the administrative resets, and without a caller's force *)

NextNoReset ==
    \/ \E p \in SerialProcs, o \in PostOptions : Post(p, o)
    \/ \E p \in SerialProcs, o \in PostOptions : PostAndWait(p, o)
    \/ \E p \in SerialProcs : ResumeAfterCheck(p)
    \/ \E p \in SerialProcs : PublisherSucceeds(p)
    \/ \E p \in SerialProcs, e \in PublisherErrors : PublisherRateLimits(p, e)
    \/ \E p \in SerialProcs, e \in PublisherErrors : PublisherFails(p, e)
    \/ \E p \in SerialProcs : ResumePostAndWait(p)
    \/ \E p \in SerialProcs : TimerFires(p)
    \/ \E p \in SerialProcs : Settle(p)
    \/ \E p \in SerialProcs, text \in Texts : CheckSafety(p, text)
    \/ \E p \in SerialProcs, j \in JitterOptions : CalculateDelay(p, j)
    \/ \E p \in SerialProcs : GetStats(p)
    \/ \E p \in SerialProcs : ClearHistory(p)
    \/ \E d \in TickSteps : Tick(d)

SpecNoReset == Init /\ [][NextNoReset]_vars

UnforcedOptions == {o \in PostOptions : ~o.force}

NextUnforced ==
    \/ \E p \in SerialProcs, o \in UnforcedOptions : Post(p, o)
    \/ \E p \in SerialProcs, o \in UnforcedOptions : PostAndWait(p, o)
    \/ \E p \in SerialProcs : ResumeAfterCheck(p)
    \/ \E p \in SerialProcs : PublisherSucceeds(p)
    \/ \E p \in SerialProcs, e \in PublisherErrors : PublisherRateLimits(p, e)
    \/ \E p \in SerialProcs, e \in PublisherErrors : PublisherFails(p, e)
    \/ \E p \in SerialProcs : ResumePostAndWait(p)
    \/ \E p \in SerialProcs : TimerFires(p)
    \/ \E p \in SerialProcs : Settle(p)
    \/ \E p \in SerialProcs, text \in Texts : CheckSafety(p, text)
    \/ \E p \in SerialProcs, j \in JitterOptions : CalculateDelay(p, j)
    \/ \E p \in SerialProcs : GetStats(p)
    \/ \E p \in SerialProcs : ClearHistory(p)
    \/ \E d \in TickSteps : Tick(d)

SpecUnforced == Init /\ [][NextUnforced]_vars

-----------------------------------------------------------------------------
(* An engine constructed on a store that earlier runs have written.  Conf  *)
(* keeps the store in a file, so the constructor finds what the last       *)
(* recordPost, 429 handler, clearHistory or resetDailyCount left there.    *)

\* the state after new XSafePost(config) at instant t on a store holding
\* hist, lp, count, date, rl
Constructed(t, tz, cfg, hist, lp, count, date, rl) ==
    /\ now = t
    /\ tzOffset = tz
    /\ safety = cfg
    /\ postHistory = hist
    /\ lastPostAt = lp
    /\ dailyPostCount = ResetCount(date, count, t)
    /\ dailyPostDate = ResetDate(date, t)
    /\ rateLimit = rl
    /\ pc = [p \in Procs |-> "idle"]
    /\ opts = [p \in Procs |-> NoOptions]
    /\ api = [p \in Procs |-> "none"]
    /\ check = [p \in Procs |-> NoCheck]
    /\ res = [p \in Procs |-> NoResult]
    /\ ret = [p \in Procs |-> None]
    /\ wakeAt = [p \in Procs |-> 0]
    /\ pre = [p \in Procs |-> NoStore]
    /\ first = [p \in Procs |-> None]
    /\ pubCalls = [p \in Procs |-> 0]
    /\ sleeps = [p \in Procs |-> 0]
    /\ evals = [p \in Procs |-> 0]
    /\ fault = [p \in Procs |-> None]
    /\ calc = [p \in Procs |-> NoDelay]
    /\ held = [p \in Procs |-> NoHeld]
    /\ published = [i \in 1..Len(hist) |->
                       [id |-> hist[i].id, text |-> hist[i].text, at |-> hist[i].timestamp]]
    /\ recorded = hist
    /\ steps = 0

\* a stored RateLimitState that resets d after t (d <= 0: it has reset)
StoredRateLimit(t, d) ==
    Some([remaining |-> 0, limit |-> DefaultRateLimitLimit, resetAt |-> t + d])

-----------------------------------------------------------------------------
(* Timing: calculateDelay and post on stores with a rate limit and a last  *)
(* post at various distances, in and out of quiet hours                    *)

\* 23:30 (quiet with the default window) and 12:00 (not quiet) of day 1
DelayTimes == {Day + 23 * Hour + 30 * Minute, Day + 12 * Hour}

DelaySafeties ==
    { MergeSafety([minIntervalMinutes |-> mi, enableQuietHours |-> qh, quietHoursEnd |-> qe,
                   enableJitter |-> ej, maxJitterMinutes |-> mj]) :
        mi \in {0, 30}, qh \in BOOLEAN, qe \in {0, 6}, ej \in BOOLEAN, mj \in {0, 30} }

\* how long before t the last post was recorded, if any
DelayLastPostAges == {None, Some(10 * Minute), Some(30 * Minute), Some(Hour)}

\* how long after t the stored rate limit resets, if one is stored
DelayResets == {None, Some(10 * Minute), Some(Hour), Some(0), Some(-10 * Minute)}

\* customJitter of calculateDelay, options.jitterMinutes of post
DelayJitterOptions == {None, Some(5), Some(0)}

DelayPostOptions == [text : {Hello}, force : {FALSE}, jitterMinutes : DelayJitterOptions]

InitDelay ==
    \E t \in DelayTimes, cfg \in DelaySafeties, age \in DelayLastPostAges,
       reset \in DelayResets :
        Constructed(t, 0, cfg, <<>>,
                    IF IsSome(age) THEN Some(t - Val(age)) ELSE None,
                    0, getTodayString(t),
                    IF IsSome(reset) THEN StoredRateLimit(t, Val(reset)) ELSE None)

NextDelay ==
    \/ \E p \in Procs, j \in DelayJitterOptions : CalculateDelay(p, j)
    \/ \E p \in SerialProcs, o \in DelayPostOptions : Post(p, o)
    \/ \E p \in SerialProcs : ResumeAfterCheck(p)
    \/ \E p \in SerialProcs : PublisherSucceeds(p)
    \/ \E p \in Procs : Settle(p)

SpecDelay == InitDelay /\ [][NextDelay]_vars

-----------------------------------------------------------------------------
(* Quiet hours: checkSafety and calculateDelay at every hour of the day,   *)
(* for every quietHoursStart and quietHoursEnd, on an empty store          *)

HoursOfDay == 0..23

\* the first and the last second of every hour of day 1
QuietTimes == {Day + h * Hour + s : h \in HoursOfDay, s \in {0, Hour - 1}}

QuietSafeties ==
    { MergeSafety([quietHoursStart |-> qs, quietHoursEnd |-> qe, enableJitter |-> FALSE]) :
        qs \in HoursOfDay, qe \in HoursOfDay }

InitQuiet ==
    \E t \in QuietTimes, cfg \in QuietSafeties :
        Constructed(t, 0, cfg, <<>>, None, 0, NoDate, None)

NextQuiet ==
    \/ \E p \in SerialProcs : CheckSafety(p, Hello)
    \/ \E p \in SerialProcs : CalculateDelay(p, None)
    \/ \E p \in SerialProcs : Settle(p)

SpecQuiet == InitQuiet /\ [][NextQuiet]_vars

-----------------------------------------------------------------------------
(* Content rules: checkSafety of various texts on stores holding up to two *)
(* records, inside and outside the dedupe window, with and without an      *)
(* exhausted rate limit and a used-up daily quota                          *)

AB          == <<"a", " ", "b">>
BA          == <<"b", " ", "a">>
FourWords   == <<"a", " ", "b", " ", "c", " ", "e">>
FiveWords   == <<"a", " ", "b", " ", "c", " ", "e", " ", "g">>
SixWords    == <<"a", " ", "b", " ", "c", " ", "e", " ", "g", " ", "h">>
ThreeTags   == <<"#", "a", " ", "#", "b", " ", "#", "c">>
FourTags    == <<"#", "a", " ", "#", "b", " ", "#", "c", " ", "#", "e">>
FiveTags    == <<"#", "a", "#", "b", "#", "c", "#", "e", "#", "g">>
SixMentions == <<"@", "a", "@", "b", "@", "c", "@", "e", "@", "g", "@", "h">>
Shortened   == <<"g", "o", " ", "b", "i", "t", ".", "l", "y">>

\* texts of the stored records, and texts checkSafety is called with
HistoryTexts == {Hello, AB, BA, FiveWords, SixTags}
CheckTexts ==
    HistoryTexts \cup {helloSpace, FourWords, SixWords, ThreeTags, FourTags, FiveTags,
                       SixMentions, Shortened}

\* how long before the construction a stored record was written: inside
\* the minimum interval, and outside the default dedupe window
RecordAges == {10 * Minute, 8 * Day}

\* the record recordPost writes for tweet number n
RecordOf(n, text, t) == [id |-> n, text |-> text, hash |-> hashContent(text), timestamp |-> t]

\* the histories of up to two records, oldest first, that end before t
Histories(t) ==
    {<<>>}
    \cup {<<RecordOf(1, x, t - a)>> : x \in HistoryTexts, a \in RecordAges}
    \cup UNION { {<<RecordOf(1, x, t - a), RecordOf(2, y, t - b)>> :
                       x \in HistoryTexts, y \in HistoryTexts,
                       b \in {c \in RecordAges : c <= a}} : a \in RecordAges }

\* dailyPostCount as stored: none, approaching the default quota, at the quota
StoredCounts == {0, DEFAULT_SAFETY.maxPostsPerDay - 2, DEFAULT_SAFETY.maxPostsPerDay}

CheckResets == {None, Some(10 * Minute)}

InitCheck ==
    \E t \in DelayTimes : \E hist \in Histories(t), count \in StoredCounts,
                           reset \in CheckResets :
        Constructed(t, 0, DEFAULT_SAFETY, hist,
                    IF hist = <<>> THEN None ELSE Some(hist[Len(hist)].timestamp),
                    count, getTodayString(t),
                    IF IsSome(reset) THEN StoredRateLimit(t, Val(reset)) ELSE None)

NextCheck ==
    \/ \E p \in SerialProcs, text \in CheckTexts : CheckSafety(p, text)
    \/ \E p \in SerialProcs : Settle(p)

SpecCheck == InitCheck /\ [][NextCheck]_vars

-----------------------------------------------------------------------------
(* Vocabulary of the properties *)

\* the errors and the warnings of the SafetyCheck that a checkSafety(text)
\* made in the current state returns
ErrorsNow(text) ==
    checkSafetyErrors(text, now, postHistory,
                      ResetCount(dailyPostDate, dailyPostCount, now), rateLimit, safety)
WarningsNow(text) ==
    checkSafetyWarnings(text, now, tzOffset, postHistory, lastPostAt,
                        ResetCount(dailyPostDate, dailyPostCount, now), safety)

\* msgs holds a message with this wording
Reports(msgs, wording) == \E i \in 1..Len(msgs) : msgs[i][1] = wording

RateLimitWording == "Rate limit exceeded. Resets at"
DailyLimitWording == "Daily post limit reached"
DuplicateWording == "Duplicate content detected"
ApproachingWording == "Approaching daily limit"

\* the delay calculateDelay would start from in the current state
BaseDelayNow == calculateBase(now, tzOffset, lastPostAt, rateLimit, safety).delayMs

\* the inner post of slot p returns in this step
PostReturns(p) == pc[p] \in {"await_check", "await_tweet", "sleeping", "idle"}
                  /\ pc'[p] \in {"done", "await_post"}

\* a validation-Blocked result: blocked by checkSafety, not by the Publisher
IsValidationBlocked(r) == r.blocked /\ r.rateLimitReset = None /\ r.thrown = None

PreHistory(p) == pre[p][1]
PreLastPostAt(p) == pre[p][2]
PreCount(p) == pre[p][3]
PreDate(p) == pre[p][4]
PreRateLimit(p) == pre[p][5]

-----------------------------------------------------------------------------
(* C1: a post without force returns Blocked, and does not call the         *)
(* Publisher, whenever checkSafety reported an error (also when a delay    *)
(* applies); otherwise it returns Delayed, without calling the Publisher,  *)
(* whenever the delay is above 0; it calls the Publisher only when the     *)
(* check was safe and the delay is 0.  When it returns Blocked or Delayed, *)
(* postHistory, lastPostAt and rateLimit are as before the call and        *)
(* dailyPostCount changed at most by the day rollover.                     *)

C1_Decision(p) ==
    /\ (pc[p] = "idle" /\ pc'[p] = "await_check") =>
           check'[p] = checkSafety(opts'[p].text, now, tzOffset, postHistory, lastPostAt,
                                   dailyPostDate, dailyPostCount, rateLimit, safety)
    /\ (pc[p] = "await_check" /\ pc'[p] # "await_check") =>
           /\ check[p].errors # <<>> =>
                  /\ res'[p] = BlockedResult(check[p].errors)
                  /\ pubCalls'[p] = pubCalls[p]
           /\ (check[p].errors = <<>> /\ BaseDelayNow > 0) =>
                  /\ res'[p].delayed /\ ~res'[p].blocked /\ ~res'[p].success
                  /\ pubCalls'[p] = pubCalls[p]
           /\ pubCalls'[p] # pubCalls[p] =>
                  /\ check[p].errors = <<>> /\ BaseDelayNow = 0
                  /\ pc'[p] = "await_tweet"
           /\ (IsValidationBlocked(res'[p]) \/ res'[p].delayed) =>
                  /\ postHistory' = PreHistory(p)
                  /\ lastPostAt' = PreLastPostAt(p)
                  /\ rateLimit' = PreRateLimit(p)
                  /\ \/ dailyPostCount' = PreCount(p) /\ dailyPostDate' = PreDate(p)
                     \/ dailyPostCount' = 0 /\ dailyPostDate' # PreDate(p)

C1_UnforcedPost == [][\A p \in Procs : C1_Decision(p)]_vars

\* a post without force has returned Blocked where a delay applies too
C1_Witness ==
    /\ pc[1] = "done" /\ api[1] = "post" /\ ~opts[1].force
    /\ IsValidationBlocked(Val(ret[1]))
    /\ BaseDelayNow > 0
    /\ pubCalls[1] = 0

-----------------------------------------------------------------------------
(* C2 as stated: once a successful post has recorded T, every              *)
(* checkSafety(T) made while that record is younger than dedupeWindowDays  *)
(* reports the duplicate error.  (recorded holds the posts recorded since  *)
(* the last clearHistory.)                                                 *)

DedupeWindow == safety.dedupeWindowDays * Day

C2_RecordedStaysDuplicate ==
    \A i \in 1..Len(recorded) :
        now - recorded[i].timestamp < DedupeWindow =>
            Reports(ErrorsNow(recorded[i].text), DuplicateWording)

(* C2, amended: for any text T, every checkSafety(T) made while a record   *)
(* of T's content is in postHistory and younger than dedupeWindowDays      *)
(* reports the duplicate error; a post recorded since the last             *)
(* clearHistory is such a record for as long as it is younger than         *)
(* dedupeWindowDays, provided dedupeWindowDays <= 30; and a checkSafety(T) *)
(* made when the window has elapsed for every record of T's content        *)
(* reports no duplicate error.                                             *)

C2_DuplicateWithinWindow ==
    /\ \A T \in Texts :
           Reports(ErrorsNow(T), DuplicateWording) <=>
               \E i \in 1..Len(postHistory) :
                   /\ postHistory[i].hash = hashContent(T)
                   /\ now - postHistory[i].timestamp < DedupeWindow
    /\ safety.dedupeWindowDays <= RetentionDays => C2_RecordedStaysDuplicate
    /\ \A T \in Texts :
           (\A i \in 1..Len(recorded) :
                recorded[i].hash = hashContent(T) =>
                    now - recorded[i].timestamp >= DedupeWindow)
               => ~Reports(ErrorsNow(T), DuplicateWording)

\* a record is exactly dedupeWindowDays old, a younger one of other content
\* is reported as a duplicate, the old one no longer
C2_Witness ==
    \E i, j \in 1..Len(postHistory) :
        /\ now - postHistory[i].timestamp = DedupeWindow
        /\ ~Reports(ErrorsNow(postHistory[i].text), DuplicateWording)
        /\ now - postHistory[j].timestamp < DedupeWindow
        /\ Reports(ErrorsNow(postHistory[j].text), DuplicateWording)

-----------------------------------------------------------------------------
(* C3: after exactly maxPostsPerDay posts recorded on the current calendar *)
(* day, checkSafety reports the daily-limit error; with maxPostsPerDay-1   *)
(* or maxPostsPerDay-2 recorded it reports the approaching warning and no  *)
(* daily-limit error; the two are never reported together.                 *)

\* the posts recorded on the calendar day d
PostsOnDay(d) == Cardinality({i \in 1..Len(published) : getTodayString(published[i].at) = d})

C3_QuotaBoundary ==
    \A T \in Texts :
        LET n == PostsOnDay(getTodayString(now))
            limit == Reports(ErrorsNow(T), DailyLimitWording)
            approaching == Reports(WarningsNow(T), ApproachingWording)
        IN  /\ n = safety.maxPostsPerDay => limit
            /\ n \in {safety.maxPostsPerDay - 1, safety.maxPostsPerDay - 2} =>
                   approaching /\ ~limit
            /\ ~(limit /\ approaching)

-----------------------------------------------------------------------------
(* C4: with no force from the caller and no resetDailyCount, the posts     *)
(* published on any one calendar day never exceed maxPostsPerDay, and      *)
(* dailyPostCount never exceeds maxPostsPerDay.                            *)

C4_DailyCap ==
    /\ \A i \in 1..Len(published) :
           PostsOnDay(getTodayString(published[i].at)) <= safety.maxPostsPerDay
    /\ dailyPostCount <= safety.maxPostsPerDay

-----------------------------------------------------------------------------
(* C10: recording a successful post applies the day rollover before        *)
(* incrementing: if dailyPostDate is an earlier day when the post is       *)
(* recorded, afterwards dailyPostDate is today and dailyPostCount is 1.    *)

C10_RolloverBeforeIncrement ==
    [][\A p \in Procs :
          (pc[p] = "await_tweet" /\ res'[p].success
             /\ dailyPostDate # getTodayString(now)) =>
              (dailyPostDate' = getTodayString(now) /\ dailyPostCount' = 1)]_vars

-----------------------------------------------------------------------------
(* C5: a post with force = true calls the Publisher exactly once whatever  *)
(* the store holds, without a safety evaluation, and never returns a       *)
(* validation-Blocked or a Delayed result.                                 *)

C5_ForcedPost ==
    \A p \in Procs :
        opts[p].force =>
            /\ pubCalls[p] = 1
            /\ pc[p] \in {"await_tweet", "await_post", "done"}
            /\ sleeps[p] = 0 => evals[p] = 0
            /\ pc[p] # "await_tweet" =>
                   /\ ~res[p].delayed
                   /\ ~IsValidationBlocked(res[p])
                   /\ res[p].success \/ IsSome(res[p].rateLimitReset) \/ IsSome(res[p].thrown)

\* a forced post was published although, when it was made, the rate limit
\* was exhausted, the daily quota reached, quiet hours active and the same
\* content in the dedupe window
C5_Witness ==
    /\ pc[1] = "done" /\ api[1] = "post" /\ opts[1].force
    /\ Val(ret[1]).success
    /\ rateLimitExhausted(PreRateLimit(1), now)
    /\ PreCount(1) >= safety.maxPostsPerDay /\ PreDate(1) = getTodayString(now)
    /\ safety.enableQuietHours /\ isQuietHours(now, tzOffset, safety)
    /\ IsSome(findDuplicate(opts[1].text, now, PreHistory(1), safety))

-----------------------------------------------------------------------------
(* C6: a postAndWait call sleeps at most once, calls the Publisher at most *)
(* once and evaluates safety at most once; if its first post is Blocked it *)
(* returns that without publishing; if it is Delayed it sleeps once and    *)
(* then posts with force exactly once.                                     *)

C6_PostAndWaitOnce ==
    \A p \in Procs :
        (pc[p] = "done" /\ api[p] = "postAndWait") =>
            /\ sleeps[p] <= 1 /\ pubCalls[p] <= 1 /\ evals[p] <= 1
            /\ IsValidationBlocked(Val(first[p])) =>
                   ret[p] = first[p] /\ pubCalls[p] = 0 /\ sleeps[p] = 0
            /\ Val(first[p]).delayed =>
                   sleeps[p] = 1 /\ pubCalls[p] = 1 /\ evals[p] = 1

-----------------------------------------------------------------------------
(* C7: when the Publisher fails with a rate-limit failure, post returns a  *)
(* blocked result instead of throwing, stores rateLimit with remaining 0   *)
(* and resetAt the reported reset (now + 15 minutes when none is           *)
(* reported) and leaves postHistory, lastPostAt and dailyPostCount alone;  *)
(* every checkSafety before the stored resetAt reports the rate-limit      *)
(* error.                                                                  *)

C7_Step(p) ==
    (pc[p] = "await_tweet" /\ IsSome(fault'[p])
       /\ (Val(fault'[p]).code = 429 \/ Val(fault'[p]).rateLimitError)) =>
        LET e == Val(fault'[p])
            reset == IF IsSome(e.resetIn) THEN now + Val(e.resetIn)
                     ELSE now + 15 * Minute
        IN  /\ res'[p].blocked /\ ~res'[p].success /\ res'[p].thrown = None
            /\ res'[p].rateLimitReset = Some(reset)
            /\ IsSome(rateLimit')
            /\ Val(rateLimit').remaining = 0
            /\ Val(rateLimit').resetAt = reset
            /\ postHistory' = postHistory
            /\ lastPostAt' = lastPostAt
            /\ dailyPostCount' = dailyPostCount

C7_StoredLimitBlocks ==
    \A T \in Texts :
        (IsSome(rateLimit) /\ now < Val(rateLimit).resetAt) =>
            Reports(ErrorsNow(T), RateLimitWording)

C7_RateLimited == [][\A p \in Procs : C7_Step(p)]_vars /\ []C7_StoredLimitBlocks

\* half an hour after a rate-limit failure that reported a reset an hour
\* ahead, checkSafety still reports the rate limit
C7_Witness ==
    /\ IsSome(rateLimit)
    /\ Val(rateLimit).resetAt - now = 30 * Minute
    /\ Reports(ErrorsNow(Hello), RateLimitWording)

-----------------------------------------------------------------------------
(* C8: when the Publisher fails with any other failure, post throws that   *)
(* same failure, does not call the Publisher again, and leaves the store   *)
(* as it was.                                                              *)

C8_Step(p) ==
    /\ (pc[p] = "await_tweet" /\ IsSome(fault'[p])
          /\ Val(fault'[p]).code # 429 /\ ~Val(fault'[p]).rateLimitError) =>
           /\ res'[p].thrown = fault'[p]
           /\ ~res'[p].blocked /\ ~res'[p].success /\ ~res'[p].delayed
           /\ pc'[p] \in {"done", "await_post"}
           /\ pubCalls'[p] = pubCalls[p]
           /\ store' = store
    /\ (IsSome(res[p].thrown) /\ pc[p] # "done") =>
           /\ pubCalls'[p] = pubCalls[p]
           /\ pc'[p] = "done" => ret'[p] = Some(res[p])
           /\ store' = store

C8_OtherFailure == [][\A p \in Procs : C8_Step(p)]_vars

\* a postAndWait has thrown the Publisher's failure, with a post in the
\* history and a rate limit stored
C8_Witness ==
    /\ pc[1] = "done" /\ api[1] = "postAndWait"
    /\ IsSome(Val(ret[1]).thrown) /\ Val(ret[1]).thrown = fault[1]
    /\ pubCalls[1] = 1
    /\ postHistory # <<>> /\ IsSome(rateLimit)

-----------------------------------------------------------------------------
(* C9: when the Publisher succeeds, post returns Posted with the           *)
(* Publisher's id; one record (that id, the text, its normalized hash,     *)
(* timestamp now) is appended to postHistory, lastPostAt becomes now,      *)
(* dailyPostCount grows by exactly 1, rateLimit is unchanged, and the      *)
(* records younger than 30 days are all kept, in their order.              *)

IsYoung(h, t) == t - h.timestamp < 30 * Day
Front(seq) == SubSeq(seq, 1, Len(seq) - 1)

C9_Step(p) ==
    (pc[p] = "await_tweet" /\ res'[p].success) =>
        /\ Len(published') = Len(published) + 1
        /\ res'[p].tweetId = Some(published'[Len(published')].id)
        /\ postHistory' # <<>>
        /\ postHistory'[Len(postHistory')] =
               [id |-> Val(res'[p].tweetId), text |-> opts[p].text,
                hash |-> hashContent(opts[p].text), timestamp |-> now]
        /\ Len(postHistory') <= Len(postHistory) + 1
        /\ SelectSeq(Front(postHistory'), LAMBDA h : IsYoung(h, now))
               = SelectSeq(postHistory, LAMBDA h : IsYoung(h, now))
        /\ lastPostAt' = Some(now)
        /\ dailyPostCount' = dailyPostCount + 1
        /\ rateLimit' = rateLimit

-----------------------------------------------------------------------------
(* C11: the rate limit is exhausted exactly when a rateLimit state is      *)
(* stored with remaining = 0 and resetAt > now: checkSafety reports the    *)
(* rate-limit error, and calculateDelay includes the cooldown, iff this    *)
(* holds; with no stored state there is no limit; once now >= resetAt      *)
(* both are gone although the stored state is still there.                 *)

CooldownReason == Some("Rate limit cooldown")

\* the direct call of method that slot p has just returned from
Returned(p, method) == pc[p] = "done" /\ api[p] = method

C11_Exhaustion ==
    LET exhausted == /\ IsSome(rateLimit)
                     /\ Val(rateLimit).remaining = 0
                     /\ Val(rateLimit).resetAt > now
    IN  \A p \in Procs :
          /\ Returned(p, "checkSafety") =>
                 (Reports(check[p].errors, RateLimitWording) <=> exhausted)
          /\ Returned(p, "calculateDelay") =>
                 /\ calc[p].reason = CooldownReason <=> exhausted
                 /\ exhausted => calc[p].delayMs >= Val(rateLimit).resetAt - now
                 /\ (~exhausted /\ lastPostAt = None /\ ~safety.enableQuietHours) =>
                        calc[p].delayMs = 0

\* the clock has reached the stored resetAt: the state is still stored and
\* checkSafety reports no rate limit
C11_Witness ==
    /\ Returned(1, "checkSafety")
    /\ IsSome(rateLimit) /\ Val(rateLimit).resetAt = now
    /\ PreRateLimit(1) = rateLimit
    /\ ~Reports(check[1].errors, RateLimitWording)

-----------------------------------------------------------------------------
(* C12: whenever the rate limit is exhausted, calculateDelay returns a     *)
(* delay of at least resetAt - now with the reason "Rate limit cooldown",  *)
(* whatever the other settings and even when the minimum-interval or the   *)
(* quiet-hours component is the larger one; in general the reason is the   *)
(* first applicable component in the order rate limit, minimum interval,   *)
(* quiet hours, and is unset iff no component applies.                     *)

\* the three components, as conditions on the store that the call of slot p
\* found (the clock does not move while a synchronous call runs)
CooldownApplies(p) ==
    /\ IsSome(PreRateLimit(p))
    /\ Val(PreRateLimit(p)).remaining = 0
    /\ Val(PreRateLimit(p)).resetAt > now
IntervalApplies(p) ==
    /\ IsSome(PreLastPostAt(p))
    /\ now - Val(PreLastPostAt(p)) < safety.minIntervalMinutes * Minute
QuietApplies ==
    LET h == ((now + tzOffset) % Day) \div Hour
    IN  /\ safety.enableQuietHours
        /\ IF safety.quietHoursStart > safety.quietHoursEnd
           THEN h >= safety.quietHoursStart \/ h < safety.quietHoursEnd
           ELSE safety.quietHoursStart <= h /\ h < safety.quietHoursEnd

\* what each component asks for
CooldownLeft(p) == Val(PreRateLimit(p)).resetAt - now
IntervalLeft(p) == safety.minIntervalMinutes * Minute - (now - Val(PreLastPostAt(p)))

-----------------------------------------------------------------------------
(* C13 as stated: with enableJitter false, calculateDelay returns exactly  *)
(* the maximum of its applicable components, and two calls at the same     *)
(* instant on the same store return the same delay; with enableJitter true *)
(* and a nonzero base, the delay lies in [base, base + J minutes) where J  *)
(* is the override if given and maxJitterMinutes otherwise.                *)

\* time until the next quietHoursEnd o'clock of the machine-local clock
QuietLeft ==
    LET intoDay == (now + tzOffset) % Day
        end     == safety.quietHoursEnd * Hour
    IN  IF end > intoDay THEN end - intoDay ELSE end + Day - intoDay

\* the maximum of the applicable components for the call of slot p
ComponentMax(p) ==
    Max(IF CooldownApplies(p) THEN CooldownLeft(p) ELSE 0,
        Max(IF IntervalApplies(p) THEN IntervalLeft(p) ELSE 0,
            IF QuietApplies THEN QuietLeft ELSE 0))

\* J of the call of slot p, in minutes
JitterOf(p) ==
    IF IsSome(opts[p].jitterMinutes) THEN Val(opts[p].jitterMinutes)
    ELSE safety.maxJitterMinutes

C13_NoJitter(p) ==
    ~safety.enableJitter =>
        /\ calc[p].delayMs = ComponentMax(p)
        /\ \A q \in Procs :
               (Returned(q, "calculateDelay") /\ pre[q] = pre[p]) =>
                   calc[q].delayMs = calc[p].delayMs

C13_JitterBounds ==
    \A p \in Procs :
        Returned(p, "calculateDelay") =>
            /\ C13_NoJitter(p)
            /\ (safety.enableJitter /\ ComponentMax(p) > 0) =>
                   /\ ComponentMax(p) <= calc[p].delayMs
                   /\ calc[p].delayMs < ComponentMax(p) + JitterOf(p) * Minute

(* C13, amended: the same without jitter; with enableJitter true and a     *)
(* nonzero base, the delay lies in [base, base + J minutes) when J > 0,    *)
(* and is exactly base when J = 0.                                         *)

C13_JitterBoundsPositive ==
    \A p \in Procs :
        Returned(p, "calculateDelay") =>
            /\ C13_NoJitter(p)
            /\ (safety.enableJitter /\ ComponentMax(p) > 0 /\ JitterOf(p) > 0) =>
                   /\ ComponentMax(p) <= calc[p].delayMs
                   /\ calc[p].delayMs < ComponentMax(p) + JitterOf(p) * Minute
            /\ (safety.enableJitter /\ ComponentMax(p) > 0 /\ JitterOf(p) = 0) =>
                   calc[p].delayMs = ComponentMax(p)

\* two calls with a 5-minute override on the same store: one returned the
\* base, the other more than the base and less than base + 5 minutes
C13_Witness ==
    /\ Returned(1, "calculateDelay") /\ Returned(2, "calculateDelay")
    /\ pre[1] = pre[2]
    /\ safety.enableJitter /\ safety.maxJitterMinutes = 30
    /\ opts[1].jitterMinutes = Some(5) /\ opts[2].jitterMinutes = Some(5)
    /\ ComponentMax(1) > 0
    /\ calc[1].delayMs = ComponentMax(1)
    /\ calc[2].delayMs > ComponentMax(2)
    /\ calc[2].delayMs < ComponentMax(2) + 5 * Minute

-----------------------------------------------------------------------------
(* C14: when no component applies (rate limit not exhausted, minimum       *)
(* interval elapsed or no last post, quiet hours disabled or not active),  *)
(* calculateDelay returns exactly 0 for every jitter setting and override, *)
(* and a post without force whose check was safe goes on to the Publisher. *)

\* no component applies to the store as it is now
ClearNow ==
    /\ ~(IsSome(rateLimit) /\ Val(rateLimit).remaining = 0 /\ Val(rateLimit).resetAt > now)
    /\ ~(IsSome(lastPostAt) /\ now - Val(lastPostAt) < safety.minIntervalMinutes * Minute)
    /\ ~QuietApplies

C14_ZeroDelay ==
    \A p \in Procs :
        (Returned(p, "calculateDelay")
           /\ ~(CooldownApplies(p) \/ IntervalApplies(p) \/ QuietApplies)) =>
            calc[p] = [delayMs |-> 0, reason |-> None]

C14_Step(p) ==
    (pc[p] = "await_check" /\ pc'[p] # "await_check" /\ check[p].safe /\ ClearNow) =>
        /\ pc'[p] = "await_tweet"
        /\ pubCalls'[p] = pubCalls[p] + 1
        /\ ~res'[p].delayed

-----------------------------------------------------------------------------
(* C15: for every start, end and hour h in 0..23: if start > end the quiet *)
(* window is active iff h >= start or h < end; otherwise iff               *)
(* start <= h < end.  With start = 23, end = 6 the hours 23 and 0 are      *)
(* quiet and the hours 12 and 22 are not; with start = end no hour is.     *)

InWindow(start, end, h) ==
    IF start > end THEN h >= start \/ h < end ELSE start <= h /\ h < end

HourNow == ((now + tzOffset) % Day) \div Hour

QuietWording == "Currently in quiet hours - post will be delayed"

\* what the call that slot p returned from says about quiet hours
SaysQuiet(p) ==
    IF api[p] = "checkSafety" THEN Reports(check[p].warnings, QuietWording)
    ELSE calc[p].reason = Some("Quiet hours") /\ calc[p].delayMs > 0

C15_Membership ==
    \A p \in Procs :
        (Returned(p, "checkSafety") \/ Returned(p, "calculateDelay")) =>
            LET start == safety.quietHoursStart
                end   == safety.quietHoursEnd
            IN  /\ SaysQuiet(p) <=> InWindow(start, end, HourNow)
                /\ (start = 23 /\ end = 6 /\ HourNow \in {23, 0}) => SaysQuiet(p)
                /\ (start = 23 /\ end = 6 /\ HourNow \in {12, 22}) => ~SaysQuiet(p)
                /\ start = end => ~SaysQuiet(p)

\* at 00:59:59 with the window 23-6, checkSafety has warned of quiet hours
C15_Witness ==
    /\ Returned(1, "checkSafety")
    /\ safety.quietHoursStart = 23 /\ safety.quietHoursEnd = 6
    /\ now = Day + Hour - 1
    /\ Reports(check[1].warnings, QuietWording)

-----------------------------------------------------------------------------
(* C16: immediately after every successful post, postHistory holds no      *)
(* record aged 30 days or more, whether or not it matches the new post,    *)
(* and holds every record younger than 30 days; records are pruned only in *)
(* that write, never in checkSafety, calculateDelay or getStats.           *)

Records(hist) == {hist[i] : i \in 1..Len(hist)}

\* slot p makes a direct, synchronous call of method in this step
Calls(p, method) == pc[p] = "idle" /\ pc'[p] = "done" /\ api'[p] = method

C16_Step ==
    /\ \A p \in Procs :
           (pc[p] = "await_tweet" /\ res'[p].success) =>
               /\ \A h \in Records(postHistory') : now - h.timestamp < 30 * Day
               /\ \A h \in Records(postHistory) :
                      now - h.timestamp < 30 * Day => h \in Records(postHistory')
    /\ \A p \in Procs :
           (Calls(p, "checkSafety") \/ Calls(p, "calculateDelay")) =>
               postHistory' = postHistory
    /\ postHistory' # postHistory =>
           \/ \E p \in Procs : pc[p] = "await_tweet" /\ res'[p].success
           \/ postHistory' = <<>>

C16_Retention == [][C16_Step]_vars

\* a successful post has pruned a record of other content that was exactly
\* 30 days old
C16_Witness ==
    /\ pc[1] = "done" /\ api[1] = "post" /\ Val(ret[1]).success
    /\ Len(recorded) = 2 /\ Len(postHistory) = 1
    /\ recorded[1].hash # recorded[2].hash
    /\ now - recorded[1].timestamp = 30 * Day
    /\ postHistory[1] = recorded[2]

\* checkSafety has run on a history holding a record older than 30 days,
\* and the record is still there
C16_WitnessOldKept ==
    /\ Returned(1, "checkSafety")
    /\ \E h \in Records(postHistory) : now - h.timestamp >= 30 * Day

-----------------------------------------------------------------------------
(* C17: a text with more than 3 hashtags gets the too-many-hashtags        *)
(* warning; with more than 5 it also gets the excessive-hashtags error and *)
(* is not safe; a text with 4 or 5 hashtags and no other error condition   *)
(* remains safe.                                                           *)

TooManyTagsWording == "Too many hashtags"
ExcessiveTagsWording == "Excessive hashtags - high shadowban risk"

\* the number of hashtags of the texts checkSafety is called with
TagsOf(text) ==
    CASE text = ThreeTags -> 3
      [] text = FourTags  -> 4
      [] text = FiveTags  -> 5
      [] text = SixTags   -> 6
      [] OTHER            -> 0

\* the content hash of the text slot p was called with
HashOf(p) == hashContent(opts[p].text)

\* the error conditions other than the hashtags, for the call of slot p
LimitedAtCall(p) ==
    /\ IsSome(PreRateLimit(p))
    /\ Val(PreRateLimit(p)).remaining = 0
    /\ Val(PreRateLimit(p)).resetAt > now
QuotaUsedAtCall(p) ==
    (IF PreDate(p) = getTodayString(now) THEN PreCount(p) ELSE 0) >= safety.maxPostsPerDay
DuplicateAtCall(p) ==
    \E h \in Records(PreHistory(p)) :
        h.hash = HashOf(p) /\ now - h.timestamp < safety.dedupeWindowDays * Day

C17_Hashtags ==
    \A p \in Procs :
        Returned(p, "checkSafety") =>
            LET n == TagsOf(opts[p].text)
            IN  /\ n > 3 => Reports(check[p].warnings, TooManyTagsWording)
                /\ n > 5 => /\ Reports(check[p].errors, ExcessiveTagsWording)
                            /\ Reports(check[p].warnings, TooManyTagsWording)
                            /\ ~check[p].safe
                /\ (n \in {4, 5} /\ ~LimitedAtCall(p) /\ ~QuotaUsedAtCall(p)
                      /\ ~DuplicateAtCall(p)) =>
                       check[p].safe /\ check[p].errors = <<>>

\* five hashtags: the warning, no error, safe
C17_Witness ==
    /\ Returned(1, "checkSafety")
    /\ opts[1].text = FiveTags
    /\ Reports(check[1].warnings, TooManyTagsWording)
    /\ check[1].safe

-----------------------------------------------------------------------------
(* C18: checkSafety evaluates all rules without short-circuit: the errors  *)
(* list holds exactly one entry for each of the four error conditions that *)
(* holds (rate limit exhausted, dailyCount >= maxPostsPerDay, exact        *)
(* duplicate within the dedupe window, more than 5 hashtags), and safe is  *)
(* true iff none of them holds; the warning-only conditions never make     *)
(* safe false.                                                             *)

Count(b) == IF b THEN 1 ELSE 0

\* the number of messages of msgs with this wording
Entries(msgs, wording) == Cardinality({i \in 1..Len(msgs) : msgs[i][1] = wording})

C18_AllRules ==
    \A p \in Procs :
        Returned(p, "checkSafety") =>
            LET excessive == TagsOf(opts[p].text) > 5
                errors == check[p].errors
            IN  /\ Entries(errors, RateLimitWording) = Count(LimitedAtCall(p))
                /\ Entries(errors, DailyLimitWording) = Count(QuotaUsedAtCall(p))
                /\ Entries(errors, DuplicateWording) = Count(DuplicateAtCall(p))
                /\ Entries(errors, ExcessiveTagsWording) = Count(excessive)
                /\ Len(errors) = Count(LimitedAtCall(p)) + Count(QuotaUsedAtCall(p))
                                   + Count(DuplicateAtCall(p)) + Count(excessive)
                /\ check[p].safe <=>
                       ~(LimitedAtCall(p) \/ QuotaUsedAtCall(p) \/ DuplicateAtCall(p)
                           \/ excessive)

\* all four error conditions hold at once and the errors list has four
\* entries, next to three warnings
C18_Witness ==
    /\ Returned(1, "checkSafety")
    /\ LimitedAtCall(1) /\ QuotaUsedAtCall(1) /\ DuplicateAtCall(1)
    /\ TagsOf(opts[1].text) > 5
    /\ Len(check[1].errors) = 4
    /\ Len(check[1].warnings) = 3

\* quiet hours, the minimum interval, a near-duplicate and a URL shortener
\* or many mentions or 4-5 hashtags are warned of, and the text is safe
C18_WitnessWarnings ==
    /\ Returned(1, "checkSafety")
    /\ check[1].safe
    /\ Len(check[1].warnings) >= 3

-----------------------------------------------------------------------------
(* C19: checkSafety reports the near-duplicate warning and the rephrase    *)
(* suggestion whenever some record within the dedupe window has a word-set *)
(* similarity to the candidate above 0.8 and a content hash different from *)
(* the candidate's, also when an exact duplicate of the candidate is in    *)
(* the window too and comes earlier in the history.                        *)

SimilarWording == "Very similar to recent post"
RephraseWording == "Consider rephrasing to avoid detection as duplicate"

\* a record of other content within the window is similar to the text of
\* the call of slot p
NearDuplicateAtCall(p) ==
    \E h \in Records(PreHistory(p)) :
        /\ now - h.timestamp < safety.dedupeWindowDays * Day
        /\ similarity(opts[p].text, h.text)[1] * 5 > 4 * similarity(opts[p].text, h.text)[2]
        /\ h.hash # HashOf(p)

C19_NearDuplicate ==
    \A p \in Procs :
        (Returned(p, "checkSafety") /\ NearDuplicateAtCall(p)) =>
            /\ Reports(check[p].warnings, SimilarWording)
            /\ Reports(check[p].suggestions, RephraseWording)

-----------------------------------------------------------------------------
(* C20: the similarity score is symmetric and lies between 0 and 1 for all *)
(* texts; a candidate identical to a recorded text scores 1.0 and, when    *)
(* that record is the only one in the dedupe window, is reported as an     *)
(* exact duplicate error and not as a near-duplicate warning.              *)

SimilarityTexts == CheckTexts \cup HistoryTexts

\* the records of the store of slot p's call that are within the window
WindowAtCall(p) ==
    {h \in Records(PreHistory(p)) : now - h.timestamp < safety.dedupeWindowDays * Day}

C20_Similarity ==
    \A p \in Procs :
        Returned(p, "checkSafety") =>
            /\ \A b \in SimilarityTexts \cup {h.text : h \in Records(PreHistory(p))} :
                   /\ similarity(opts[p].text, b) = similarity(b, opts[p].text)
                   /\ similarity(opts[p].text, b)[2] > 0
                   /\ similarity(opts[p].text, b)[1] >= 0
                   /\ similarity(opts[p].text, b)[1] <= similarity(opts[p].text, b)[2]
            /\ \A h \in WindowAtCall(p) :
                   h.text = opts[p].text =>
                       /\ similarity(opts[p].text, h.text)[1] = similarity(opts[p].text, h.text)[2]
                       /\ WindowAtCall(p) = {h} =>
                              /\ Reports(check[p].errors, DuplicateWording)
                              /\ ~Reports(check[p].warnings, SimilarWording)

\* the candidate is the text of the one record in the window: the duplicate
\* error is reported and the near-duplicate warning is not
C20_Witness ==
    /\ Returned(1, "checkSafety")
    /\ \E h \in WindowAtCall(1) : h.text = opts[1].text /\ WindowAtCall(1) = {h}
    /\ Reports(check[1].errors, DuplicateWording)
    /\ ~Reports(check[1].warnings, SimilarWording)
    /\ \E b \in SimilarityTexts :
           /\ similarity(opts[1].text, b)[1] > 0
           /\ similarity(opts[1].text, b)[1] < similarity(opts[1].text, b)[2]

-----------------------------------------------------------------------------
(* Normalization: posts and checkSafety of texts that differ in letter     *)
(* case and in whitespace, one minute apart, on a store that starts empty  *)

HeLLo      == <<" ", "H", "e", "L", "L", "o">>
helloLine  == <<"h", "e", "l", "l", "o", "\n", "\t">>
AWideB     == <<"A", " ", " ", "\t", "B">>
aTabB      == <<"a", "\t", "b", " ">>
Ab         == <<"A", "b">>

\* texts that differ from each other in letter case, in the length of
\* their whitespace runs and in leading or trailing whitespace only
HashFamilies == { {Hello, helloSpace, HeLLo, helloLine}, {AB, AWideB, aTabB}, {Ab}, {Bye} }
HashTexts == UNION HashFamilies

\* the texts that are posted; checkSafety is called with every text
HashPostTexts == {Hello, AWideB}
HashPostOptions == [text : HashPostTexts, force : BOOLEAN, jitterMinutes : {None}]

\* the end-to-end scenario evaluates 60 seconds after the post
HashTickSteps == {Minute}

InitHash ==
    Constructed(Day + 12 * Hour, 0, DEFAULT_SAFETY, <<>>, None, 0, NoDate, None)

NextHash ==
    \/ \E p \in SerialProcs, o \in HashPostOptions : Post(p, o)
    \/ \E p \in SerialProcs : ResumeAfterCheck(p)
    \/ \E p \in SerialProcs : PublisherSucceeds(p)
    \/ \E p \in SerialProcs, text \in HashTexts : CheckSafety(p, text)
    \/ \E p \in SerialProcs : Settle(p)
    \/ \E d \in HashTickSteps : Tick(d)

SpecHash == InitHash /\ [][NextHash]_vars

-----------------------------------------------------------------------------
(* C21: content hashing is insensitive to letter case, to the length of    *)
(* internal whitespace runs and to leading and trailing whitespace: texts  *)
(* that differ only in those respects have the same hash, so a checkSafety *)
(* of such a text reports the duplicate error for a recorded post within   *)
(* the window; hashing an already normalized text gives the same hash.     *)

SameFamily(a, b) == \E F \in HashFamilies : a \in F /\ b \in F

\* text.toLowerCase().replace(/\s+/g, ' ').trim()
normalized(text) == trim(collapseSpaces(toLowerCase(text)))

C21_HashInsensitive ==
    /\ \A a \in HashTexts, b \in HashTexts :
           SameFamily(a, b) => hashContent(a) = hashContent(b)
    /\ \A a \in HashTexts : hashContent(normalized(a)) = hashContent(a)
    /\ \A p \in Procs :
           Returned(p, "checkSafety") =>
               \A h \in WindowAtCall(p) :
                   SameFamily(h.text, opts[p].text) =>
                       /\ h.hash = HashOf(p)
                       /\ Reports(check[p].errors, DuplicateWording)

\* 'Hello' was posted, and 60 seconds later checkSafety('hello ') has
\* reported the duplicate
C21_Witness ==
    /\ Returned(1, "checkSafety")
    /\ opts[1].text = helloSpace
    /\ Len(published) = 1
    /\ published[1].text = Hello
    /\ now = published[1].at + 60 * Second
    /\ safety.minIntervalMinutes = 30
    /\ Reports(check[1].errors, DuplicateWording)

-----------------------------------------------------------------------------
(* Two engines in two processes on the same Conf store.  Every store.get   *)
(* reads the file and every store.set writes it, so another process can    *)
(* run between any two store accesses of recordPost: here recordPost is    *)
(* one step per store access, and held keeps what it has read.             *)

\* client.v2.tweet resolves; recordPost reads postHistory
RecordPostReadHistory(p) ==
    /\ pc[p] = "await_tweet"
    /\ published' = Append(published,
           [id |-> Len(published) + 1, text |-> opts[p].text, at |-> now])
    /\ held' = [held EXCEPT ![p].history = postHistory, ![p].id = Len(published) + 1]
    /\ pc' = [pc EXCEPT ![p] = "record_history"]
    /\ UNCHANGED <<now, tzOffset, safety, store, opts, api, check, res, ret, wakeAt, pre,
                   first, pubCalls, sleeps, evals, fault, calc, recorded, steps>>

\* this.store.set('postHistory', pruned)
RecordPostWriteHistory(p) ==
    /\ pc[p] = "record_history"
    /\ postHistory' = recordPostHistory(held[p].history, opts[p].text, held[p].id, now)
    /\ recorded' = Append(recorded,
           [id |-> held[p].id, text |-> opts[p].text,
            hash |-> hashContent(opts[p].text), timestamp |-> now])
    /\ pc' = [pc EXCEPT ![p] = "record_last"]
    /\ UNCHANGED <<now, tzOffset, safety, lastPostAt, dailyPostCount, dailyPostDate,
                   rateLimit, opts, api, check, res, ret, wakeAt, pre, first, pubCalls,
                   sleeps, evals, fault, calc, held, published, steps>>

\* this.store.set('lastPostAt', Date.now())
RecordPostWriteLastPostAt(p) ==
    /\ pc[p] = "record_last"
    /\ lastPostAt' = Some(now)
    /\ pc' = [pc EXCEPT ![p] = "record_read"]
    /\ UNCHANGED <<now, tzOffset, safety, postHistory, dailyPostCount, dailyPostDate,
                   rateLimit, opts, api, check, res, ret, wakeAt, pre, first, pubCalls,
                   sleeps, evals, fault, calc, held, published, recorded, steps>>

\* this.store.get('dailyPostCount')
RecordPostReadCount(p) ==
    /\ pc[p] = "record_read"
    /\ held' = [held EXCEPT ![p].count = dailyPostCount]
    /\ pc' = [pc EXCEPT ![p] = "record_count"]
    /\ UNCHANGED <<now, tzOffset, safety, store, opts, api, check, res, ret, wakeAt, pre,
                   first, pubCalls, sleeps, evals, fault, calc, published, recorded, steps>>

\* this.store.set('dailyPostCount', ... + 1), then post returns Posted
RecordPostWriteCount(p) ==
    /\ pc[p] = "record_count"
    /\ dailyPostCount' = recordPostCount(held[p].count)
    /\ ReturnFromPost(p, PostedResult(held[p].id, rateLimit), api[p], first[p])
    /\ UNCHANGED <<now, tzOffset, safety, postHistory, lastPostAt, dailyPostDate,
                   rateLimit, opts, api, check, wakeAt, pre, pubCalls, sleeps, evals,
                   fault, calc, held, published, recorded, steps>>

SharedPostOptions == [text : PostTexts, force : {FALSE}, jitterMinutes : {None}]

\* dailyPostCount as the store holds it: nothing posted today, one slot left
SharedCounts == {0, DEFAULT_SAFETY.maxPostsPerDay - 1}

InitShared ==
    \E count \in SharedCounts :
        Constructed(Day + 12 * Hour, 0, DEFAULT_SAFETY, <<>>, None, count,
                    getTodayString(Day + 12 * Hour), None)

NextShared ==
    \/ \E p \in Procs, o \in SharedPostOptions : Post(p, o)
    \/ \E p \in Procs : ResumeAfterCheck(p)
    \/ \E p \in Procs : RecordPostReadHistory(p)
    \/ \E p \in Procs : RecordPostWriteHistory(p)
    \/ \E p \in Procs : RecordPostWriteLastPostAt(p)
    \/ \E p \in Procs : RecordPostReadCount(p)
    \/ \E p \in Procs : RecordPostWriteCount(p)
    \/ \E p \in Procs : Settle(p)

SpecShared == InitShared /\ [][NextShared]_vars

-----------------------------------------------------------------------------
(* C22: without serialization the store accesses race.  A non-forced post  *)
(* is published on the strength of its own evaluation of the store as it   *)
(* was when the call began, so two posts both evaluated before either      *)
(* writes back are both published although they carry the same text or     *)
(* although one quota slot was left; and when two recordPost runs both     *)
(* read dailyPostCount before either writes it, one increment is lost:     *)
(* the two successful posts raise the count by 1.                          *)

Submitted(p) ==
    /\ api[p] = "post"
    /\ \/ pc[p] \in {"await_tweet", "record_history", "record_last", "record_read",
                     "record_count"}
       \/ pc[p] = "done" /\ Val(ret[p]).success

C22_Race ==
    /\ \A p \in Procs :
           (Submitted(p) /\ ~opts[p].force) =>
               /\ check[p].safe
               /\ check[p] = checkSafety(opts[p].text, now, tzOffset, PreHistory(p),
                                         PreLastPostAt(p), PreDate(p), PreCount(p),
                                         PreRateLimit(p), safety)
    /\ \A p \in Procs, q \in Procs :
           ( /\ p # q
             /\ Returned(p, "post") /\ Val(ret[p]).success
             /\ Returned(q, "post") /\ Val(ret[q]).success
             /\ held[p].count = held[q].count ) =>
               /\ dailyPostCount = held[p].count + 1
               /\ held[p].id # held[q].id

\* two posts of the same text, evaluated on the same store with one quota
\* slot left, are both published, and the count has grown by 1
C22_Witness ==
    /\ Returned(1, "post") /\ Val(ret[1]).success /\ ~opts[1].force
    /\ Returned(2, "post") /\ Val(ret[2]).success /\ ~opts[2].force
    /\ opts[1].text = opts[2].text
    /\ pre[1] = pre[2]
    /\ PreCount(1) = safety.maxPostsPerDay - 1
    /\ Len(published) = 2
    /\ published[1].text = published[2].text
    /\ dailyPostCount = PreCount(1) + 1

-----------------------------------------------------------------------------
(* C23: the wait of postAndWait carries no partial side effects.  Between  *)
(* the Delayed verdict and the forced resubmission the call writes nothing *)
(* to the store: while it sleeps (and so if the wait is abandoned there),  *)
(* postHistory, lastPostAt and rateLimit are what they were before the     *)
(* call, and the call has recorded and published no post.                  *)

Sleeping(p) == api[p] = "postAndWait" /\ pc[p] = "sleeping"

C23_NoPartialEffects ==
    \A p \in SerialProcs :
        Sleeping(p) =>
            /\ Val(first[p]).delayed
            /\ ~Val(first[p]).success
            /\ postHistory = PreHistory(p)
            /\ lastPostAt = PreLastPostAt(p)
            /\ rateLimit = PreRateLimit(p)
            /\ pubCalls[p] = 0

\* the call sleeps on a store that holds a post, the clock has moved on and
\* the timer is not yet due
C23_Witness ==
    /\ Sleeping(1)
    /\ postHistory # <<>>
    /\ IsSome(lastPostAt)
    /\ steps >= 2
    /\ now < wakeAt[1]
    /\ ~opts[1].force

-----------------------------------------------------------------------------
(* Administration: clearHistory and resetDailyCount on the stores of the   *)
(* content rules, on the day of the last write and on later days           *)

AdminTexts == {Hello, BA, FiveWords}
AdminTickSteps == {Day}

NextAdmin ==
    \/ \E p \in SerialProcs : ClearHistory(p)
    \/ \E p \in SerialProcs : ResetDailyCount(p)
    \/ \E p \in SerialProcs, text \in AdminTexts : CheckSafety(p, text)
    \/ \E p \in SerialProcs : Settle(p)
    \/ \E d \in AdminTickSteps : Tick(d)

SpecAdmin == InitCheck /\ [][NextAdmin]_vars

-----------------------------------------------------------------------------
(* C24: clearHistory empties postHistory and leaves lastPostAt,            *)
(* dailyPostCount, dailyPostDate and rateLimit unchanged, so afterwards no *)
(* text reports a duplicate or a near-duplicate while the minimum-interval *)
(* delay and the daily quota still apply; resetDailyCount sets             *)
(* dailyPostCount to 0 and dailyPostDate to today and leaves postHistory,  *)
(* lastPostAt and rateLimit unchanged.                                     *)

C24_Step ==
    \A p \in SerialProcs :
        /\ ClearHistory(p) =>
               /\ postHistory' = <<>>
               /\ UNCHANGED <<lastPostAt, dailyPostCount, dailyPostDate, rateLimit>>
               /\ BaseDelayNow' = BaseDelayNow
               /\ \A text \in CheckTexts :
                      /\ ~Reports(ErrorsNow(text)', DuplicateWording)
                      /\ ~Reports(WarningsNow(text)', SimilarWording)
                      /\ Reports(ErrorsNow(text)', DailyLimitWording)
                             <=> Reports(ErrorsNow(text), DailyLimitWording)
        /\ ResetDailyCount(p) =>
               /\ dailyPostCount' = 0
               /\ dailyPostDate' = getTodayString(now)
               /\ UNCHANGED <<postHistory, lastPostAt, rateLimit>>

C24_Administration ==
    /\ [][C24_Step]_vars
    /\ [](\A p \in SerialProcs :
              (Returned(p, "checkSafety") /\ PreHistory(p) = <<>>) =>
                  /\ ~Reports(check[p].errors, DuplicateWording)
                  /\ ~Reports(check[p].warnings, SimilarWording))

\* after clearHistory a checkSafety of the text that was posted reports no
\* duplicate, but the used-up quota, and the interval still delays
C24_Witness ==
    /\ Returned(1, "checkSafety")
    /\ postHistory = <<>>
    /\ PreHistory(1) = <<>>
    /\ published # <<>>
    /\ opts[1].text = published[Len(published)].text
    /\ now - published[Len(published)].at < safety.dedupeWindowDays * Day
    /\ ~Reports(check[1].errors, DuplicateWording)
    /\ Reports(check[1].errors, DailyLimitWording)
    /\ lastPostAt = Some(published[Len(published)].at)
    /\ BaseDelayNow > 0

\* resetDailyCount has been applied to a used-up quota of an earlier day
C24_WitnessReset ==
    /\ dailyPostCount = 0
    /\ dailyPostDate = getTodayString(now)
    /\ steps > 0
    /\ postHistory # <<>>
    /\ Returned(1, "checkSafety")
    /\ PreCount(1) = 0
    /\ ~Reports(check[1].errors, DailyLimitWording)

-----------------------------------------------------------------------------
(* C25: checkSafety on a text containing exactly three hashtags returns    *)
(* the warning 'Too many hashtags (3) - recommend max 2-3'.                *)

C25_ThreeHashtagsWarn ==
    \A p \in Procs :
        (Returned(p, "checkSafety") /\ TagsOf(opts[p].text) = 3) =>
            \E i \in 1..Len(check[p].warnings) :
                check[p].warnings[i] = <<TooManyTagsWording, 3>>

-----------------------------------------------------------------------------
(* Day rollover: posts, checkSafety, getStats and resetDailyCount around   *)
(* midnight UTC, with the interval, quiet hours and jitter switched off    *)

RolloverSafety ==
    MergeSafety([minIntervalMinutes |-> 0, enableQuietHours |-> FALSE, enableJitter |-> FALSE])

\* dailyPostCount and dailyPostDate as the last run left them
RolloverCounts == {0, 3}
RolloverDates == {NoDate, getTodayString(Day)}

RolloverTickSteps == {30 * Minute, Day}

InitRollover ==
    \E count \in RolloverCounts, date \in RolloverDates :
        Constructed(Day + 23 * Hour + 30 * Minute, 0, RolloverSafety, <<>>, None,
                    count, date, None)

NextRollover ==
    \/ \E p \in SerialProcs, o \in PostOptions : Post(p, o)
    \/ \E p \in SerialProcs : ResumeAfterCheck(p)
    \/ \E p \in SerialProcs : PublisherSucceeds(p)
    \/ \E p \in SerialProcs : Settle(p)
    \/ \E p \in SerialProcs, text \in PostTexts : CheckSafety(p, text)
    \/ \E p \in SerialProcs : GetStats(p)
    \/ \E p \in SerialProcs : ResetDailyCount(p)
    \/ \E d \in RolloverTickSteps : Tick(d)

SpecRollover == InitRollover /\ [][NextRollover]_vars

-----------------------------------------------------------------------------
(* C26: lazy day rollover.  Every access through checkSafety, getStats or  *)
(* the constructor resets dailyPostCount to 0 and sets dailyPostDate to    *)
(* today iff the stored date differs from today, and otherwise changes     *)
(* neither; so the reset happens once per observed day change, and between *)
(* rollovers and resetDailyCount calls the count never decreases.          *)

StoredDateIsStale == dailyPostDate # getTodayString(now)

\* slot p runs checkDailyReset in this step: checkSafety called directly,
\* checkSafety within post, getStats
Access(p) ==
    \/ pc[p] = "idle" /\ api'[p] = "checkSafety"
    \/ evals'[p] = evals[p] + 1
    \/ GetStats(p)

C26_Step ==
    \A p \in SerialProcs :
        /\ Access(p) =>
               IF StoredDateIsStale
               THEN dailyPostCount' = 0 /\ dailyPostDate' = getTodayString(now)
               ELSE UNCHANGED <<dailyPostCount, dailyPostDate>>
        /\ (dailyPostCount' < dailyPostCount \/ dailyPostDate' # dailyPostDate) =>
               \/ Access(p) /\ StoredDateIsStale
               \/ ResetDailyCount(p)

C26_Rollover ==
    /\ [][C26_Step]_vars
    /\ [](\A p \in SerialProcs :
              Returned(p, "checkSafety") =>
                  /\ dailyPostDate = getTodayString(now)
                  /\ dailyPostCount = IF PreDate(p) # getTodayString(now) THEN 0 ELSE PreCount(p))

\* a checkSafety on a later day has reset a count that was not 0; and one
\* on the same day as the stored date has left a count that was not 0
C26_Witness ==
    /\ Returned(1, "checkSafety")
    /\ PreDate(1) # getTodayString(now)
    /\ PreDate(1) # NoDate
    /\ PreCount(1) > 0
    /\ dailyPostCount = 0
    /\ published # <<>>

C26_WitnessSameDay ==
    /\ Returned(1, "checkSafety")
    /\ PreDate(1) = getTodayString(now)
    /\ PreCount(1) > 0
    /\ dailyPostCount = PreCount(1)
    /\ steps > 0

-----------------------------------------------------------------------------
(* C27: minimum spacing.  A non-forced post made less than                 *)
(* minIntervalMinutes after lastPostAt, with no error condition holding,   *)
(* is answered Delayed (not Blocked) with a delay of at least the          *)
(* remaining interval; so in serialized use without a caller's force flag  *)
(* any two consecutive successful publishes through post or postAndWait    *)
(* are at least minIntervalMinutes apart.                                  *)

\* what is left of the minimum interval in the current state
IntervalLeftNow ==
    IF IsSome(lastPostAt)
    THEN safety.minIntervalMinutes * Minute - (now - Val(lastPostAt))
    ELSE 0

\* post goes on from a passed checkSafety to its verdict in this step
C27_Step(p) ==
    ( /\ pc[p] = "await_check" /\ pc'[p] # "await_check"
      /\ check[p].safe /\ ~opts[p].force
      /\ IntervalLeftNow > 0 ) =>
        /\ pc'[p] \in {"done", "await_post"}
        /\ res'[p].delayed
        /\ ~res'[p].blocked
        /\ ~res'[p].success
        /\ Val(res'[p].scheduledFor) - now >= IntervalLeftNow
        /\ pubCalls'[p] = pubCalls[p]

PublishesSpaced ==
    \A i \in 1..(Len(published) - 1) :
        published[i + 1].at - published[i].at >= safety.minIntervalMinutes * Minute

-----------------------------------------------------------------------------
(* C28: getQuietHoursEnd returns the next instant strictly after now whose *)
(* hour is quietHoursEnd with minutes and seconds zero, so it is more than *)
(* 0 and at most 24 hours after now; whenever quiet hours are active, that *)
(* instant is the end of the current quiet window: now + the quiet delay   *)
(* is not inside quiet hours and every hour between now and it is quiet.   *)

HourAt(t) == ((t + tzOffset) % Day) \div Hour

C28_QuietEnd ==
    \A p \in Procs :
        Returned(p, "calculateDelay") =>
            LET quietEnd == getQuietHoursEnd(now, tzOffset, safety)
                start    == safety.quietHoursStart
                end      == safety.quietHoursEnd
            IN  /\ quietEnd > now
                /\ quietEnd - now <= Day
                /\ HourAt(quietEnd) = end
                /\ (quietEnd + tzOffset) % Hour = 0
                /\ (safety.enableQuietHours /\ InWindow(start, end, HourNow)) =>
                       /\ calc[p].delayMs = quietEnd - now
                       /\ ~InWindow(start, end, HourAt(now + calc[p].delayMs))
                       /\ \A k \in 0..23 :
                              now + k * Hour < quietEnd =>
                                  InWindow(start, end, HourAt(now + k * Hour))

\* at 23:59:59 with the window 23-6, calculateDelay has returned the 6 hours
\* and 1 second up to 06:00 of the next day
C28_Witness ==
    /\ Returned(1, "calculateDelay")
    /\ safety.quietHoursStart = 23
    /\ safety.quietHoursEnd = 6
    /\ now = Day + 23 * Hour + 59 * Minute + 59 * Second
    /\ calc[1].delayMs = 6 * Hour + Second
    /\ getQuietHoursEnd(now, tzOffset, safety) = 2 * Day + 6 * Hour

-----------------------------------------------------------------------------
(* C29: when several records within the dedupe window have the            *)
(* candidate's content hash (possible after forced posts), the duplicate   *)
(* error refers to the most recent of them: the age it reports is the age  *)
(* of the latest matching record.                                          *)

\* the records within the window that have the hash of slot p's text
MatchesAtCall(p) == {h \in WindowAtCall(p) : h.hash = HashOf(p)}

LatestMatchAtCall(p) ==
    CHOOSE h \in MatchesAtCall(p) : \A g \in MatchesAtCall(p) : g.timestamp <= h.timestamp

C29_LatestDuplicate ==
    \A p \in Procs :
        (Returned(p, "checkSafety") /\ MatchesAtCall(p) # {}) =>
            \E i \in 1..Len(check[p].errors) :
                check[p].errors[i] =
                    <<DuplicateWording>> \o timeAgo(LatestMatchAtCall(p).timestamp, now)

-----------------------------------------------------------------------------
(* C30: postAndWait never returns a Delayed verdict.  Whenever its first   *)
(* evaluation is Delayed it goes on to sleep and submit, so every          *)
(* postAndWait call on a candidate with no error condition ends in Posted, *)
(* in a rate-limit Blocked verdict from the Publisher or in a propagated   *)
(* Publisher failure, whatever time elapses between the verdict and the    *)
(* wait computation.                                                       *)

C30_NeverDelayed ==
    \A p \in Procs :
        Returned(p, "postAndWait") =>
            /\ ~Val(ret[p]).delayed
            /\ ~IsValidationBlocked(Val(first[p])) =>
                   \/ Val(ret[p]).success
                   \/ Val(ret[p]).blocked /\ IsSome(Val(ret[p]).rateLimitReset)
                   \/ IsSome(Val(ret[p]).thrown)

-----------------------------------------------------------------------------
(* C31: pruning never shortens the dedupe window when dedupeWindowDays is  *)
(* at most 30: as long as clearHistory is not called, every post recorded  *)
(* less than dedupeWindowDays ago is still in postHistory, whatever other  *)
(* posts are recorded; with dedupeWindowDays over 30 a record inside the   *)
(* window can be removed by a later recordPost, and only one that is 30    *)
(* days old or older.                                                      *)

C31_PruningKeepsWindow ==
    \A i \in 1..Len(recorded) :
        now - recorded[i].timestamp < DedupeWindow =>
            \/ recorded[i] \in Records(postHistory)
            \/ /\ safety.dedupeWindowDays > RetentionDays
               /\ now - recorded[i].timestamp >= RetentionDays * Day

\* with a window of one day, a post recorded less than a day ago is still in
\* postHistory after a later post has been recorded
C31_Witness ==
    /\ safety.dedupeWindowDays <= RetentionDays
    /\ Len(recorded) = 2
    /\ recorded[1].timestamp < recorded[2].timestamp
    /\ now - recorded[1].timestamp < DedupeWindow
    /\ recorded[1] \in Records(postHistory)
    /\ recorded[2] \in Records(postHistory)

\* with a window of 40 days, a later recordPost has removed a record that is
\* inside the window
C31_WitnessRemoved ==
    /\ safety.dedupeWindowDays > RetentionDays
    /\ Len(recorded) = 2
    /\ now - recorded[1].timestamp < DedupeWindow
    /\ recorded[1] \notin Records(postHistory)
    /\ recorded[2] \in Records(postHistory)

-----------------------------------------------------------------------------
(* C32: history / last-post consistency.  In every reachable state the     *)
(* timestamps in postHistory are non-decreasing in list order, postHistory *)
(* is non-empty only if lastPostAt is set, and lastPostAt is greater than  *)
(* or equal to every timestamp in postHistory; no operation ever decreases *)
(* or clears lastPostAt.                                                   *)

HistoryConsistent ==
    /\ \A i \in 1..(Len(postHistory) - 1) :
           postHistory[i].timestamp <= postHistory[i + 1].timestamp
    /\ postHistory # <<>> => IsSome(lastPostAt)
    /\ \A i \in 1..Len(postHistory) : postHistory[i].timestamp <= Val(lastPostAt)

LastPostAtKept ==
    \/ lastPostAt' = lastPostAt
    \/ /\ IsSome(lastPostAt')
       /\ IsSome(lastPostAt) => Val(lastPostAt') >= Val(lastPostAt)

C32_HistoryConsistency == []HistoryConsistent /\ [][LastPostAtKept]_vars

\* two posts recorded at different instants, then clearHistory: lastPostAt
\* is still the instant of the second
C32_Witness ==
    /\ Len(published) = 2
    /\ published[1].at < published[2].at
    /\ postHistory = <<>>
    /\ lastPostAt = Some(published[2].at)

\* two records in postHistory, written at different instants
C32_WitnessTwoRecords ==
    /\ Len(postHistory) = 2
    /\ postHistory[1].timestamp < postHistory[2].timestamp
    /\ lastPostAt = Some(postHistory[2].timestamp)

=============================================================================
